---- MODULE Spec2Model ----
(***************************************************************************)
(* Model of scripts/notebook_transformer.py: the manifest-driven build     *)
(* orchestrator (NotebookTransformer.build_rrn / build_ci), the transform  *)
(* registry it dispatches to, and the files it reads and writes.           *)
(*                                                                         *)
(* Files carry a modification time taken from a logical clock: every       *)
(* write stamps the file with the clock and advances it, shutil.copy2      *)
(* copies the modification time of its source along with the content.      *)
(* A text is a sequence of lines; a notebook is a sequence of cells plus   *)
(* top-level metadata.  Optional values (None / missing key) are sequences *)
(* of length 0 or 1.                                                       *)
(***************************************************************************)
EXTENDS Integers, Sequences, FiniteSets, TLC

VARIABLES
    config,     \* what is on disk before construction: manifest keys, footer.md
    manifest,   \* the parsed manifest: notebooks, scripts, other
    obj,        \* the NotebookTransformer object: state and loaded footer
    src,        \* source files, by entry id (REPO_ROOT / entry["source_path"])
    rrn,        \* artifacts under RRN/build, by entry id
    ci,         \* artifacts under RRN/ci_build, by entry id
    dirs,       \* which build directories exist
    clock,      \* logical file-system time
    inv,        \* the last build invocation: arguments, pre-state, events, result
    quiet,      \* no file was changed from outside since the last invocation ended
    nbuilds,    \* build invocations so far
    nenv,       \* outside file changes so far
    nb,         \* a notebook taken through the transform registry, step by step
    md,         \* a text taken through the markdown normalizer
    ex          \* an export of the build into a destination directory

vars == <<config, manifest, obj, src, rrn, ci, dirs, clock, inv, quiet, nbuilds, nenv,
          nb, md, ex>>

\* Bounds of the model.
MaxBuilds == 2
MaxEnvSteps == 1

-----------------------------------------------------------------------------
(* Lines of text the transforms look for.                                  *)

NexusOnlyLine == "# NEXUS-ONLY"
SourceMagicLine == "%source kernel-activate rges-pit-dc"
KernelActivateLine == "!kernel-activate rges-pit-dc"
FooterStart == "<!-- Footer Start -->"
FooterEnd == "<!-- Footer End -->"
PurpleHrLine == "<hr style='border:2px solid #a859e4'>"

\* re.compile(r"(?m)^\s*#\s*NEXUS-ONLY\b")
MatchesNexusOnly(line) == line \in {NexusOnlyLine, "  #NEXUS-ONLY setup"}
\* re.compile(r"(?m)^\s*%source\b")
MatchesSourceMagic(line) == line \in {SourceMagicLine, "%source other"}
\* re.compile(r"kernel-activate\b")
MatchesKernelActivate(line) == line \in {SourceMagicLine, KernelActivateLine}

HasNexusOnly(text) == \E i \in 1..Len(text) : MatchesNexusOnly(text[i])
HasSourceMagic(text) == \E i \in 1..Len(text) : MatchesSourceMagic(text[i])
HasKernelActivate(text) == \E i \in 1..Len(text) : MatchesKernelActivate(text[i])

-----------------------------------------------------------------------------
(* Documents.                                                              *)

CodeCell(source, tags, outputs, count) ==
    [cell_type |-> "code", source |-> source, tags |-> tags,
     outputs |-> outputs, execution_count |-> count]

MarkdownCell(source, tags) ==
    [cell_type |-> "markdown", source |-> source, tags |-> tags,
     outputs |-> <<>>, execution_count |-> <<>>]

NoMetadata == [kernelspec |-> <<>>, rges_sync |-> <<>>]

_new_notebook == [cells |-> <<>>, metadata |-> NoMetadata]

NoFile == [exists |-> FALSE, mtime |-> 0, form |-> "none",
           nb |-> _new_notebook, text |-> <<>>]

NotebookFile(doc, t) == [exists |-> TRUE, mtime |-> t, form |-> "nb",
                         nb |-> doc, text |-> <<>>]

TextFile(text, t) == [exists |-> TRUE, mtime |-> t, form |-> "text",
                      nb |-> _new_notebook, text |-> text]

HasTag(cell, tag) == \E i \in 1..Len(cell.tags) : cell.tags[i] = tag

-----------------------------------------------------------------------------
(* The transforms.                                                         *)

\* A variant that also empties the tag list of the cells it clears.
_clear_outputs_and_tags(doc) ==
    LET clear(cell) ==
            IF cell.cell_type = "code"
            THEN [cell EXCEPT !.outputs = <<>>, !.execution_count = <<>>, !.tags = <<>>]
            ELSE cell
    IN [doc EXCEPT !.cells = [i \in 1..Len(doc.cells) |-> clear(doc.cells[i])]]

\* A variant that empties the outputs and keeps the execution counter.
_clear_outputs_keep_count(doc) ==
    LET clear(cell) ==
            IF cell.cell_type = "code" THEN [cell EXCEPT !.outputs = <<>>] ELSE cell
    IN [doc EXCEPT !.cells = [i \in 1..Len(doc.cells) |-> clear(doc.cells[i])]]

_clear_outputs(doc) ==
    LET clear(cell) ==
            IF cell.cell_type = "code"
            THEN [cell EXCEPT !.outputs = <<>>, !.execution_count = <<>>]
            ELSE cell
    IN [doc EXCEPT !.cells = [i \in 1..Len(doc.cells) |-> clear(doc.cells[i])]]

_record_metadata(doc, entry) ==
    LET kspec == doc.metadata.kernelspec
        nexus == kspec # <<>> /\ (kspec[1].name = "rges-pit-dc"
                                  \/ kspec[1].display_name = "rges-pit-dc")
        kspec2 == IF nexus
                  THEN <<[name |-> "rges-pit-dc", display_name |-> "RGES PIT Nexus",
                          version |-> "3.11.14"]>>
                  ELSE kspec
    IN [doc EXCEPT !.metadata =
            [kernelspec |-> kspec2,
             rges_sync |-> <<[source_id |-> entry.id,
                              nexus_support |-> entry.nexus_support]>>]]

_replace_purple_hr(doc) ==
    LET line(l) == IF l = PurpleHrLine THEN "***" ELSE l
        fix(cell) ==
            IF cell.cell_type # "markdown" THEN cell
            ELSE [cell EXCEPT !.source = [i \in 1..Len(cell.source) |-> line(cell.source[i])]]
    IN [doc EXCEPT !.cells = [i \in 1..Len(doc.cells) |-> fix(doc.cells[i])]]

\* A variant that hands the remaining cells back last first.
_remove_cells_with_tag_reversed(doc, tag) ==
    LET rest == SelectSeq(doc.cells, LAMBDA c : ~HasTag(c, tag))
    IN [doc EXCEPT !.cells = [i \in 1..Len(rest) |-> rest[Len(rest) + 1 - i]]]

_remove_cells_with_tag(doc, tag) ==
    [doc EXCEPT !.cells = SelectSeq(doc.cells, LAMBDA c : ~HasTag(c, tag))]

TagMarked(cell) ==
    /\ cell.cell_type = "code"
    /\ (HasNexusOnly(cell.source) \/ HasSourceMagic(cell.source))

\* A variant that appends the tag whether or not the cell has it.
_tag_ci_skip_always_appends(doc) ==
    LET tag(cell) ==
            IF TagMarked(cell) THEN [cell EXCEPT !.tags = Append(@, "ci-skip")] ELSE cell
    IN [doc EXCEPT !.cells = [i \in 1..Len(doc.cells) |-> tag(doc.cells[i])]]

\* A variant that looks for the NEXUS-ONLY comment alone.
_tag_ci_skip_no_magic(doc) ==
    LET tag(cell) ==
            IF cell.cell_type = "code" /\ HasNexusOnly(cell.source)
               /\ ~HasTag(cell, "ci-skip")
            THEN [cell EXCEPT !.tags = Append(@, "ci-skip")]
            ELSE cell
    IN [doc EXCEPT !.cells = [i \in 1..Len(doc.cells) |-> tag(doc.cells[i])]]

_tag_ci_skip_nexus_only(doc) ==
    LET tag(cell) ==
            IF TagMarked(cell) /\ ~HasTag(cell, "ci-skip")
            THEN [cell EXCEPT !.tags = Append(@, "ci-skip")]
            ELSE cell
    IN [doc EXCEPT !.cells = [i \in 1..Len(doc.cells) |-> tag(doc.cells[i])]]

\* A variant that removes by the nexus-only tag alone.
_remove_nexus_only_cells_by_tag(doc) ==
    LET keep(cell) == cell.cell_type # "code" \/ ~HasTag(cell, "nexus-only")
    IN [doc EXCEPT !.cells = SelectSeq(doc.cells, keep)]

\* A variant that removes by the nexus-only tag and the two markers only.
_remove_nexus_only_cells_no_kernel(doc) ==
    LET keep(cell) ==
            \/ cell.cell_type # "code"
            \/ /\ ~HasTag(cell, "nexus-only")
               /\ ~HasNexusOnly(cell.source)
               /\ ~HasSourceMagic(cell.source)
    IN [doc EXCEPT !.cells = SelectSeq(doc.cells, keep)]

_remove_nexus_only_cells(doc) ==
    LET keep(cell) ==
            \/ cell.cell_type # "code"
            \/ /\ ~HasTag(cell, "nexus-only")
               /\ ~HasNexusOnly(cell.source)
               /\ ~HasSourceMagic(cell.source)
               /\ ~HasKernelActivate(cell.source)
    IN [doc EXCEPT !.cells = SelectSeq(doc.cells, keep)]

\* FOOTER_PATTERN.sub(replacement, text): every region from a start marker to
\* the nearest following end marker is replaced; a start marker that no end
\* marker follows is left alone.
RECURSIVE FooterSub(_, _)
FooterSub(text, replacement) ==
    IF text = <<>> THEN <<>>
    ELSE IF Head(text) = FooterStart
              /\ \E j \in 1..Len(text) : text[j] = FooterEnd
         THEN LET j == CHOOSE k \in 1..Len(text) :
                          /\ text[k] = FooterEnd
                          /\ \A m \in 1..(k - 1) : text[m] # FooterEnd
              IN replacement \o FooterSub(SubSeq(text, j + 1, Len(text)), replacement)
         ELSE <<Head(text)>> \o FooterSub(Tail(text), replacement)

HasFooterStart(text) == \E i \in 1..Len(text) : text[i] = FooterStart

_insert_rrn_footer(doc, footer) ==
    LET cells == doc.cells
        found == {i \in 1..Len(cells) :
                     cells[i].cell_type = "markdown" /\ HasFooterStart(cells[i].source)}
    IN IF footer = <<>> THEN doc
       ELSE IF found # {}
       THEN LET first == CHOOSE i \in found : \A k \in found : i <= k
            IN [doc EXCEPT !.cells[first].source = FooterSub(@, footer)]
       ELSE [doc EXCEPT !.cells = Append(@, MarkdownCell(footer, <<>>))]

\* A variant that records the missing sections in a cell of the notebook.
_warn_required_sections_in_cell(doc, entry) ==
    [doc EXCEPT !.cells = Append(@, MarkdownCell(<<"missing sections">>, <<>>))]

\* _warn_required_sections prints to stderr and leaves the notebook alone.
_warn_required_sections(doc, entry) == doc

-----------------------------------------------------------------------------
(* A build in progress: the files, the clock, the events so far, the list  *)
(* of written paths, and whether an exception is propagating.              *)

Emit(st, id, ev, arg) ==
    [st EXCEPT !.log = Append(@, [id |-> id, ev |-> ev, arg |-> arg])]

Raise(st, id, type, arg) ==
    [Emit(st, id, "raise", arg) EXCEPT
        !.status = "raised", !.error = [type |-> type, arg |-> arg]]

NoError == [type |-> "", arg |-> ""]

\* source_path.read_text(): the lines of a text file.
ReadText(file) == IF file.form = "text" THEN file.text ELSE <<"{notebook json}">>

\* What the upstream URL of a synced entry serves.
UpstreamNotebook ==
    [cells |-> <<MarkdownCell(<<"# Upstream title">>, <<>>),
                 CodeCell(<<"y = 2">>, <<>>, <<"out">>, <<7>>)>>,
     metadata |-> NoMetadata]

_sync_source(st, entry) ==
    IF entry.upstream_url = "absent"
    THEN Raise(st, entry.id, "ValueError", "sync")
    ELSE IF entry.upstream_url = "unreachable"
    THEN Raise(st, entry.id, "URLError", "sync")
    ELSE [Emit(st, entry.id, "sync", "source") EXCEPT
            !.src[entry.id] = NotebookFile(UpstreamNotebook, st.clock),
            !.clock = @ + 1]

\* The single markdown cell _convert_rst_to_notebook builds, by how far the
\* external converters get (a backtick of the source is written ' here).
\* A variant that falls back to the raw text when either converter fails.
ConvertedSourceAlwaysFallsBack(rst_text, conv) ==
    IF conv = "ok" THEN <<"converted markdown">>
    ELSE <<"# Notebook Content", "> Note: RST conversion requires docutils.",
           "'''text">> \o rst_text \o <<"'''">>

ConvertedSource(rst_text, conv) ==
    IF conv = "ok" THEN <<"converted markdown">>
    ELSE IF conv = "markdownify_fails" THEN <<"<html body>">>
    ELSE <<"# Notebook Content", "> Note: RST conversion requires docutils.",
           "'''text">> \o rst_text \o <<"'''">>

\* A variant that replaces the cells and keeps the top-level metadata.
_convert_rst_to_notebook_keeps_metadata(st, doc, entry) ==
    IF ~st.src[entry.id].exists
    THEN [st |-> Raise(st, entry.id, "FileNotFoundError", "convert_rst_to_notebook"),
          doc |-> doc]
    ELSE [st |-> st,
          doc |-> [doc EXCEPT !.cells =
                      <<MarkdownCell(ConvertedSource(ReadText(st.src[entry.id]), st.conv),
                                     <<>>)>>]]

_convert_rst_to_notebook(st, doc, entry) ==
    IF ~st.src[entry.id].exists
    THEN [st |-> Raise(st, entry.id, "FileNotFoundError", "convert_rst_to_notebook"),
          doc |-> doc]
    ELSE [st |-> st,
          doc |-> [_new_notebook EXCEPT !.cells =
                      <<MarkdownCell(ConvertedSource(ReadText(st.src[entry.id]), st.conv),
                                     <<>>)>>]]

\* A variant that warns about an unknown name and goes on.
UnknownTransformWarns(transform, st, doc, entry) ==
    [st |-> Emit(st, entry.id, "warn", transform), doc |-> doc]

\* raise ValueError(f"Unknown transform '{transform}'")
UnknownTransform(transform, st, doc, entry) ==
    [st |-> Raise(st, entry.id, "ValueError", transform), doc |-> doc]

_apply_transform(transform, st, doc, entry) ==
    LET done(d) == [st |-> Emit(st, entry.id, "transform", transform), doc |-> d]
    IN CASE transform = "clear_outputs" -> done(_clear_outputs(doc))
         [] transform = "record_metadata" -> done(_record_metadata(doc, entry))
         [] transform = "replace_purple_hr" -> done(_replace_purple_hr(doc))
         [] transform = "remove_colab_only" -> done(_remove_cells_with_tag(doc, "colab-only"))
         [] transform = "tag_ci_skip_nexus_only" -> done(_tag_ci_skip_nexus_only(doc))
         [] transform = "remove_nexus_only_cells" -> done(_remove_nexus_only_cells(doc))
         [] transform \in {"insert_rrn_footer", "footer"} ->
                done(_insert_rrn_footer(doc, st.footer))
         [] transform = "warn_required_sections" -> done(_warn_required_sections(doc, entry))
         [] transform = "convert_rst_to_notebook" ->
                LET r == _convert_rst_to_notebook(st, doc, entry)
                IN IF r.st.status = "raised" THEN r
                   ELSE [st |-> Emit(r.st, entry.id, "transform", transform), doc |-> r.doc]
         [] OTHER -> UnknownTransform(transform, st, doc, entry)

\* for transform in transforms: self._apply_transform(transform, notebook, entry)
\* (build_rrn passes over "sync" in this loop, the other callers do not).
RECURSIVE ApplyAll(_, _, _, _, _)
ApplyAll(transforms, st, doc, entry, skip_sync) ==
    IF transforms = <<>> \/ st.status = "raised" THEN [st |-> st, doc |-> doc]
    ELSE IF skip_sync /\ Head(transforms) = "sync"
         THEN ApplyAll(Tail(transforms), st, doc, entry, skip_sync)
         ELSE LET r == _apply_transform(Head(transforms), st, doc, entry)
              IN ApplyAll(Tail(transforms), r.st, r.doc, entry, skip_sync)

_write_notebook(st, id, doc) ==
    [Emit(st, id, "write", "notebook") EXCEPT
        !.dst[id] = NotebookFile(doc, st.clock),
        !.clock = @ + 1]

\* dest_path.write_text(content)
WriteText(st, id, text) ==
    [Emit(st, id, "write", "text") EXCEPT
        !.dst[id] = TextFile(text, st.clock),
        !.clock = @ + 1]

\* shutil.copy2(source_path, dest_path): content and modification time.
Copy2(st, id) ==
    [Emit(st, id, "copy", "copy2") EXCEPT !.dst[id] = st.src[id]]

Written(st, id) == [st EXCEPT !.written = Append(@, id)]

Range(seq) == {seq[i] : i \in 1..Len(seq)}

-----------------------------------------------------------------------------
(* Entry processing.                                                       *)

\* include_ids = set(include_ids) if include_ids else None
\* (the argument is <<>> for None, <<S>> for a collection S).
IncludeIds(arg) == IF arg # <<>> /\ arg[1] # {} THEN arg ELSE <<>>

\* if include_ids and notebook_id not in include_ids: continue
Filtered(include_ids, id) ==
    include_ids # <<>> /\ include_ids[1] # {} /\ id \notin include_ids[1]

DefaultRrnTransforms ==
    <<"clear_outputs", "record_metadata", "insert_rrn_footer", "warn_required_sections">>

DefaultCiTransforms ==
    <<"clear_outputs", "record_metadata", "replace_purple_hr",
      "remove_nexus_only_cells", "warn_required_sections">>

\* A variant that compares the modification times whatever force says.
UpToDateIgnoringForce(dest, source, force) ==
    dest.exists /\ dest.mtime > source.mtime

\* dest_path.exists() and not force, then the comparison of st_mtime.
UpToDate(dest, source, force) ==
    dest.exists /\ ~force /\ dest.mtime > source.mtime

\* Path(...).suffix.lower() of the paths the manifests of this model name.
Suffix(path) ==
    CASE path \in {"notebooks/wrapped.ipynb"} -> ".ipynb"
      [] path \in {"scripts/fit_events.py"} -> ".py"
      [] OTHER -> ""

\* One pass of the notebooks loop of build_rrn.
RrnNotebook(st, entry, include_ids, force) ==
    LET id == entry.id
        transforms == IF entry.rrn_transforms # <<>> THEN entry.rrn_transforms
                      ELSE DefaultRrnTransforms
        st1 == IF "sync" \in Range(transforms) THEN _sync_source(st, entry) ELSE st
        source == st1.src[id]
        dest == st1.dst[id]
        skip == source.exists /\ UpToDate(dest, source, force)
        st2 == Emit(st1, id, "staleness", IF skip THEN "skip" ELSE "build")
        convert == "convert_rst_to_notebook" \in Range(transforms)
        all == IF "tag_ci_skip_nexus_only" \notin Range(transforms)
               THEN <<"tag_ci_skip_nexus_only">> \o transforms
               ELSE transforms
        r == ApplyAll(all, Emit(st2, id, "load", IF convert THEN "new" ELSE "source"),
                      IF convert THEN _new_notebook ELSE source.nb, entry, TRUE)
    IN IF Filtered(include_ids, id) \/ entry.nexus_support # "true" THEN st
       ELSE IF st1.status = "raised" THEN st1
       ELSE IF skip THEN st2
       ELSE IF ~convert /\ ~source.exists
       THEN Raise(st2, id, "FileNotFoundError", "source")
       ELSE IF ~convert /\ source.form # "nb"
       THEN Raise(st2, id, "JSONDecodeError", "source")
       ELSE IF r.st.status = "raised" THEN r.st
       ELSE Written(_write_notebook(r.st, id, r.doc), id)

_process_script_entry(st, entry, force) ==
    LET id == entry.id
        source == st.src[id]
        dest == st.dst[id]
        suffix == IF entry.rrn_target # "" THEN Suffix(entry.rrn_target) ELSE ".ipynb"
        skip == UpToDate(dest, source, force)
        st2 == Emit(st, id, "staleness", IF skip THEN "skip" ELSE "build")
        notebook == [_new_notebook EXCEPT !.cells =
                        <<CodeCell(ReadText(source), <<>>, <<>>, <<>>)>>]
        r == ApplyAll(entry.rrn_transforms, Emit(st2, id, "load", "script"),
                      notebook, entry, FALSE)
    IN IF ~source.exists THEN Raise(st, id, "FileNotFoundError", "source")
       ELSE IF skip THEN Written(st2, id)
       ELSE IF suffix # ".ipynb" THEN Written(Copy2(st2, id), id)
       ELSE IF r.st.status = "raised" THEN r.st
       ELSE Written(_write_notebook(r.st, id, r.doc), id)

\* The texts of this model carry no "SOURCE (web content)" comment, so
\* _inject_web_content returns at its first test.
_inject_web_content(content) == content

_insert_rrn_footer_text(content, footer) ==
    IF footer = <<>> THEN content
    ELSE IF HasFooterStart(content) THEN FooterSub(content, footer)
    ELSE content \o <<"">> \o footer

PurpleHrText == "<hr style=\"border:2px solid #a859e4\">"

_apply_text_transform(transform, st, content, entry) ==
    LET done(c) == [st |-> Emit(st, entry.id, "transform", transform), text |-> c]
    IN CASE transform = "build_like_website" -> done(_inject_web_content(content))
         [] transform \in {"footer", "insert_rrn_footer"} ->
                done(_insert_rrn_footer_text(content, st.footer))
         [] transform \in {"clear_outputs", "record_metadata", "remove_colab_only",
                           "warn_required_sections"} -> done(content)
         [] transform = "replace_purple_hr" ->
                done([i \in 1..Len(content) |->
                        IF content[i] = PurpleHrText THEN "***" ELSE content[i]])
         [] OTHER -> [st |-> Emit(st, entry.id, "warn", transform), text |-> content]

RECURSIVE ApplyAllText(_, _, _, _)
ApplyAllText(transforms, st, content, entry) ==
    IF transforms = <<>> THEN [st |-> st, text |-> content]
    ELSE LET r == _apply_text_transform(Head(transforms), st, content, entry)
         IN ApplyAllText(Tail(transforms), r.st, r.text, entry)

_process_other_entry(st, entry, force) ==
    LET id == entry.id
        source == st.src[id]
        dest == st.dst[id]
        skip == UpToDate(dest, source, force)
        st2 == Emit(st, id, "staleness", IF skip THEN "skip" ELSE "build")
        transforms == entry.rrn_transforms
        r == ApplyAllText(transforms, Emit(st2, id, "load", "text"), ReadText(source), entry)
    IN IF ~source.exists THEN Raise(st, id, "FileNotFoundError", "source")
       ELSE IF skip THEN Written(st2, id)
       ELSE IF entry.source_suffix = ".md" /\ transforms # <<>>
       THEN Written(WriteText(r.st, id, r.text), id)
       ELSE Written(Copy2(st2, id), id)

\* A variant that processes a script whatever its nexus_support flag.
RrnScriptUngated(st, entry, include_ids, force) ==
    IF Filtered(include_ids, entry.id) THEN st
    ELSE _process_script_entry(st, entry, force)

\* One pass of the scripts loop and of the other loop of build_rrn.
RrnScript(st, entry, include_ids, force) ==
    IF Filtered(include_ids, entry.id) \/ entry.nexus_support # "true" THEN st
    ELSE _process_script_entry(st, entry, force)

RrnOther(st, entry, include_ids, force) ==
    IF Filtered(include_ids, entry.id) \/ entry.nexus_support # "true" THEN st
    ELSE _process_other_entry(st, entry, force)

\* One pass of the loop of build_ci.
CiNotebook(st, entry, include_ids, force) ==
    LET id == entry.id
        source == st.src[id]
        dest == st.dst[id]
        skip == UpToDate(dest, source, force)
        st2 == Emit(st, id, "staleness", IF skip THEN "skip" ELSE "build")
        transforms == IF entry.ci_transforms # <<>> THEN entry.ci_transforms
                      ELSE DefaultCiTransforms
        r == ApplyAll(transforms, Emit(st2, id, "load", "source"), source.nb, entry, FALSE)
    IN IF Filtered(include_ids, id) THEN st
       ELSE IF entry.ci_support = "false" THEN st
       ELSE IF entry.colab_support = "not_applicable" THEN st
       ELSE IF ~source.exists THEN Raise(st, id, "FileNotFoundError", "source")
       ELSE IF skip THEN st2
       ELSE IF source.form # "nb" THEN Raise(st2, id, "JSONDecodeError", "source")
       ELSE IF r.st.status = "raised" THEN r.st
       ELSE Written(_write_notebook(r.st, id, r.doc), id)

\* A variant that catches the exception of one pass and goes on with the next.
StepCatching(st, entry, target, include_ids, force) ==
    LET go == [st EXCEPT !.status = "ok"]
    IN IF target = "ci" THEN CiNotebook(go, entry, include_ids, force)
       ELSE IF entry.kind = "notebook" THEN RrnNotebook(go, entry, include_ids, force)
       ELSE IF entry.kind = "script" THEN RrnScript(go, entry, include_ids, force)
       ELSE RrnOther(go, entry, include_ids, force)

\* An exception raised in one pass leaves the loop and the method.
Step(st, entry, target, include_ids, force) ==
    IF st.status = "raised" THEN st
    ELSE IF target = "ci" THEN CiNotebook(st, entry, include_ids, force)
    ELSE IF entry.kind = "notebook" THEN RrnNotebook(st, entry, include_ids, force)
    ELSE IF entry.kind = "script" THEN RrnScript(st, entry, include_ids, force)
    ELSE RrnOther(st, entry, include_ids, force)

RECURSIVE Loop(_, _, _, _, _)
Loop(entries, st, target, include_ids, force) ==
    IF entries = <<>> THEN st
    ELSE Loop(Tail(entries), Step(st, Head(entries), target, include_ids, force),
              target, include_ids, force)

\* The entries a target iterates over, in order.
ProcessingOrder(m, target) ==
    IF target = "ci" THEN m.notebooks
    ELSE m.notebooks \o m.scripts \o m.other

build_rrn(st, m, arg, force) ==
    Loop(ProcessingOrder(m, "rrn"), st, "rrn", IncludeIds(arg), force)

build_ci(st, m, arg, force) ==
    Loop(ProcessingOrder(m, "ci"), st, "ci", IncludeIds(arg), force)

-----------------------------------------------------------------------------
(* Construction.                                                           *)

\* "notebooks" not in data -> ValueError
_load_manifest(m) ==
    IF m.has_notebooks THEN [status |-> "ok", error |-> NoError]
    ELSE [status |-> "raised", error |-> [type |-> "ValueError", arg |-> "notebooks"]]

\* str.strip() on a text: blank lines at either end go.
RECURSIVE StripLeft(_)
StripLeft(text) ==
    IF text # <<>> /\ Head(text) = "" THEN StripLeft(Tail(text)) ELSE text

RECURSIVE StripRight(_)
StripRight(text) ==
    IF text # <<>> /\ text[Len(text)] = ""
    THEN StripRight(SubSeq(text, 1, Len(text) - 1))
    ELSE text

Strip(text) == StripRight(StripLeft(text))

\* A variant that asks for the start marker alone.
_load_rrn_footer_start_only(file) ==
    LET text == Strip(file.text)
    IN IF ~file.exists
       THEN [status |-> "raised", text |-> <<>>,
             error |-> [type |-> "FileNotFoundError", arg |-> "footer"]]
       ELSE IF FooterStart \notin Range(text)
       THEN [status |-> "raised", text |-> <<>>,
             error |-> [type |-> "ValueError", arg |-> "footer"]]
       ELSE [status |-> "ok", text |-> text, error |-> NoError]

_load_rrn_footer(file) ==
    LET text == Strip(file.text)
    IN IF ~file.exists
       THEN [status |-> "raised", text |-> <<>>,
             error |-> [type |-> "FileNotFoundError", arg |-> "footer"]]
       ELSE IF FooterStart \notin Range(text) \/ FooterEnd \notin Range(text)
       THEN [status |-> "raised", text |-> <<>>,
             error |-> [type |-> "ValueError", arg |-> "footer"]]
       ELSE [status |-> "ok", text |-> text, error |-> NoError]

\* NotebookTransformer.__init__
__init__(m, footer_file) ==
    LET lm == _load_manifest(m)
        lf == _load_rrn_footer(footer_file)
    IN IF lm.status = "raised" THEN [state |-> "failed", footer |-> <<>>, error |-> lm.error]
       ELSE IF lf.status = "raised"
       THEN [state |-> "failed", footer |-> <<>>, error |-> lf.error]
       ELSE [state |-> "ready", footer |-> lf.text, error |-> NoError]

-----------------------------------------------------------------------------
(* The manifests, sources and inputs the model ranges over.                *)

Ids == {"n1", "n2", "s1", "o1"}

Entry(id, kind, nexus, cisup, colab, rrnT, ciT, url, target, suffix) ==
    [id |-> id, kind |-> kind, nexus_support |-> nexus, ci_support |-> cisup,
     colab_support |-> colab, rrn_transforms |-> rrnT, ci_transforms |-> ciT,
     upstream_url |-> url, rrn_target |-> target, source_suffix |-> suffix]

\* Support flags are "true", "false" or "absent" (key missing).
FirstNotebooks ==
    { Entry("n1", "notebook", "true", "absent", "absent", <<>>, <<>>, "absent", "", ".ipynb"),
      Entry("n1", "notebook", "absent", "true", "absent", <<>>, <<>>, "absent", "", ".ipynb"),
      Entry("n1", "notebook", "true", "absent", "absent",
            <<"sync", "clear_outputs", "record_metadata">>, <<>>,
            "https://upstream/n1.ipynb", "", ".ipynb"),
      Entry("n1", "notebook", "true", "true", "absent",
            <<"clear_outputs", "strip_widgets">>, <<"strip_widgets">>, "absent", "", ".ipynb") }

SecondNotebooks ==
    { Entry("n2", "notebook", "true", "absent", "not_applicable",
            <<"remove_colab_only", "insert_rrn_footer">>, <<>>, "absent", "", ".ipynb"),
      Entry("n2", "notebook", "true", "false", "absent",
            <<"record_metadata", "convert_rst_to_notebook", "insert_rrn_footer">>, <<>>,
            "absent", "", ".rst"),
      Entry("n2", "notebook", "true", "absent", "absent",
            <<"sync", "clear_outputs">>, <<>>, "unreachable", "", ".ipynb"),
      Entry("n2", "notebook", "true", "absent", "absent",
            <<"clear_outputs", "tag_ci_skip_nexus_only">>, <<"clear_outputs">>,
            "absent", "", ".ipynb") }

Scripts ==
    { Entry("s1", "script", "true", "absent", "absent", <<"clear_outputs">>, <<>>,
            "absent", "", ".py"),
      Entry("s1", "script", "true", "absent", "absent", <<"strip_widgets">>, <<>>,
            "absent", "scripts/fit_events.py", ".py"),
      Entry("s1", "script", "true", "absent", "absent", <<"strip_widgets">>, <<>>,
            "absent", "notebooks/wrapped.ipynb", ".py"),
      Entry("s1", "script", "absent", "absent", "absent", <<>>, <<>>, "absent", "", ".py") }

Others ==
    { Entry("o1", "other", "true", "absent", "absent",
            <<"insert_rrn_footer", "strip_widgets">>, <<>>, "absent", "", ".md"),
      Entry("o1", "other", "true", "absent", "absent", <<>>, <<>>, "absent", "", ".yml"),
      Entry("o1", "other", "false", "absent", "absent", <<>>, <<>>, "absent", "", ".md") }

\* The manifest every entry of which is built by both targets where it applies.
PlainEntries ==
    { Entry("n1", "notebook", "true", "absent", "absent", <<>>, <<>>, "absent", "", ".ipynb"),
      Entry("n2", "notebook", "true", "absent", "absent",
            <<"clear_outputs", "tag_ci_skip_nexus_only">>, <<"clear_outputs">>,
            "absent", "", ".ipynb"),
      Entry("s1", "script", "true", "absent", "absent", <<"clear_outputs">>, <<>>,
            "absent", "", ".py"),
      Entry("o1", "other", "true", "absent", "absent",
            <<"insert_rrn_footer", "strip_widgets">>, <<>>, "absent", "", ".md") }

\* Manifests of two notebooks, a script and another file, in which at most one
\* entry differs from the plain ones.
Manifests ==
    { m \in { [has_notebooks |-> TRUE, notebooks |-> <<a, b>>,
               scripts |-> <<s>>, other |-> <<o>>] :
               a \in FirstNotebooks, b \in SecondNotebooks, s \in Scripts, o \in Others } :
        Cardinality({m.notebooks[1], m.notebooks[2], m.scripts[1], m.other[1]}
                    \ PlainEntries) <= 1 }

\* A manifest file without the "notebooks" key.
BadManifest ==
    [has_notebooks |-> FALSE, notebooks |-> <<>>,
     scripts |-> <<Entry("s1", "script", "true", "absent", "absent", <<>>, <<>>,
                         "absent", "", ".py")>>,
     other |-> <<>>]

FooterText == <<FooterStart, "Maintained by the RGES PIT.", FooterEnd>>

FooterFiles ==
    { TextFile(FooterText \o <<"">>, 1),
      NoFile,
      TextFile(<<"Maintained by the RGES PIT.", FooterEnd>>, 1),
      TextFile(<<FooterStart, "Maintained by the RGES PIT.">>, 1) }

RichNotebook ==
    [cells |-> <<MarkdownCell(<<"# Microlensing fits", PurpleHrLine>>, <<>>),
                 CodeCell(<<"x = [1, 2, 3]", "x">>, <<>>, <<"[1, 2, 3]">>, <<5>>),
                 CodeCell(<<NexusOnlyLine, "setup()">>, <<>>, <<>>, <<>>),
                 CodeCell(<<SourceMagicLine>>, <<"nexus-only">>, <<"ok">>, <<1>>),
                 CodeCell(<<"from google.colab import drive">>, <<"colab-only">>, <<>>, <<>>),
                 MarkdownCell(<<"## About this Notebook", FooterStart, "old footer",
                                FooterEnd>>, <<>>)>>,
     metadata |-> [kernelspec |-> <<[name |-> "rges-pit-dc", display_name |-> "rges-pit-dc",
                                     version |-> "3.10"]>>,
                   rges_sync |-> <<>>]]

PlainNotebook ==
    [cells |-> <<MarkdownCell(<<"# Introduction">>, <<>>),
                 CodeCell(<<"%source other", "run()">>, <<"keep">>, <<"done">>, <<2>>),
                 CodeCell(<<KernelActivateLine>>, <<>>, <<>>, <<>>)>>,
     metadata |-> NoMetadata]

ScriptText == <<"import numpy as np", NexusOnlyLine, "fit()">>
RstText == <<"Title", "=====", "", "body">>
MarkdownText == <<"# Page", PurpleHrText, FooterStart, "old footer", FooterEnd>>
YamlText == <<"name: rges-pit-dc">>

InitialSource(entry) ==
    CASE entry.source_suffix = ".ipynb" ->
            NotebookFile(IF entry.id = "n1" THEN RichNotebook ELSE PlainNotebook, 1)
      [] entry.source_suffix = ".rst" -> TextFile(RstText, 1)
      [] entry.source_suffix = ".py" -> TextFile(ScriptText, 1)
      [] entry.source_suffix = ".md" -> TextFile(MarkdownText, 1)
      [] OTHER -> TextFile(YamlText, 1)

AllEntries(m) == m.notebooks \o m.scripts \o m.other

EntryOf(m, id) ==
    LET all == AllEntries(m)
    IN all[CHOOSE i \in 1..Len(all) : all[i].id = id]

HasEntry(m, id) == \E i \in 1..Len(AllEntries(m)) : AllEntries(m)[i].id = id

\* --only: absent, given without ids, given with ids.
IncludeArgs == {<<>>, <<{}>>, <<{"n2", "s1", "o1"}>>}

ConverterStates == {"ok", "no_docutils", "markdownify_fails"}

NoInvocation ==
    [active |-> FALSE, target |-> "", arg |-> <<>>, force |-> FALSE,
     log |-> <<>>, written |-> <<>>, result |-> "none", error |-> NoError,
     repeat |-> FALSE, conv |-> "ok"]

\* No notebook is being taken through the registry; no text through the normalizer.
NoTransformRun ==
    [orig |-> _new_notebook, prev |-> _new_notebook, doc |-> _new_notebook,
     plain |-> _new_notebook, applied |-> <<>>]

NoNormalizerRun == [input |-> <<>>, output |-> <<>>, done |-> FALSE]

\* No export has been set up.
NoExportRun ==
    [manifest |-> <<>>, build |-> {}, before |-> [dirs |-> {}, files |-> {}],
     tree |-> [dirs |-> {}, files |-> {}], clean |-> FALSE, removed |-> <<>>,
     exported |-> <<>>, done |-> FALSE]

-----------------------------------------------------------------------------
(* The state machine.                                                      *)

Init ==
    /\ manifest \in Manifests \cup {BadManifest}
    /\ config \in {[footer |-> f] : f \in FooterFiles}
    /\ obj = [state |-> "none", footer |-> <<>>, error |-> NoError]
    /\ \E missing \in {{}} \cup {{id} : id \in Ids} :
           src = [id \in Ids |-> IF HasEntry(manifest, id) /\ id \notin missing
                                 THEN InitialSource(EntryOf(manifest, id)) ELSE NoFile]
    /\ rrn = [id \in Ids |-> NoFile]
    /\ ci = [id \in Ids |-> NoFile]
    /\ dirs = [rrn |-> FALSE, ci |-> FALSE]
    /\ clock = 2
    /\ inv = NoInvocation @@ [srcBefore |-> src, dstBefore |-> rrn]
    /\ quiet = TRUE
    /\ nbuilds = 0
    /\ nenv = 0
    /\ nb = NoTransformRun
    /\ md = NoNormalizerRun
    /\ ex = NoExportRun

\* transformer = NotebookTransformer(args.manifest)
Construct ==
    /\ obj.state = "none"
    /\ obj' = __init__(manifest, config.footer)
    /\ UNCHANGED <<config, manifest, src, rrn, ci, dirs, clock, inv, quiet, nbuilds, nenv,
                   nb, md, ex>>

Start(dst, conv) ==
    [src |-> src, dst |-> dst, clock |-> clock, log |-> <<>>, written |-> <<>>,
     status |-> "ok", error |-> NoError, footer |-> obj.footer, conv |-> conv]

\* The outcome of the external converters shows only in builds that convert.
Converts(m) ==
    \E i \in 1..Len(m.notebooks) :
        "convert_rst_to_notebook" \in Range(m.notebooks[i].rrn_transforms)

UsesConverter(st) ==
    \E i \in 1..Len(st.log) :
        st.log[i].ev = "transform" /\ st.log[i].arg = "convert_rst_to_notebook"

Record(st, target, arg, force, before) ==
    [active |-> TRUE, target |-> target, arg |-> arg, force |-> force,
     log |-> st.log, written |-> IF st.status = "raised" THEN <<>> ELSE st.written,
     result |-> IF st.status = "raised" THEN "raised" ELSE "returned",
     error |-> st.error, conv |-> st.conv,
     repeat |-> inv.active /\ inv.result = "returned" /\ quiet
                /\ inv.target = target /\ inv.arg = arg,
     srcBefore |-> src, dstBefore |-> before]

\* transformer.build_rrn(include_ids=args.only, force=args.force)
BuildRrn(arg, force, conv) ==
    /\ obj.state = "ready"
    /\ nbuilds < MaxBuilds
    /\ LET st == build_rrn(Start(rrn, conv), manifest, arg, force)
       IN /\ conv = "ok" \/ (Converts(manifest) /\ UsesConverter(st))
          /\ src' = st.src
          /\ rrn' = st.dst
          /\ clock' = st.clock
          /\ inv' = Record(st, "rrn", arg, force, rrn)
    /\ dirs' = [dirs EXCEPT !.rrn = TRUE]
    /\ quiet' = TRUE
    /\ nbuilds' = nbuilds + 1
    /\ UNCHANGED <<config, manifest, obj, ci, nenv, nb, md, ex>>

\* transformer.build_ci(include_ids=args.only, force=args.force)
BuildCi(arg, force) ==
    /\ obj.state = "ready"
    /\ nbuilds < MaxBuilds
    /\ LET st == build_ci(Start(ci, "ok"), manifest, arg, force)
       IN /\ src' = st.src
          /\ ci' = st.dst
          /\ clock' = st.clock
          /\ inv' = Record(st, "ci", arg, force, ci)
    /\ dirs' = [dirs EXCEPT !.ci = TRUE]
    /\ quiet' = TRUE
    /\ nbuilds' = nbuilds + 1
    /\ UNCHANGED <<config, manifest, obj, rrn, nenv, nb, md, ex>>

\* Someone edits a source file whose artifact was up to date.
TouchSource(id) ==
    /\ obj.state = "ready"
    /\ nenv < MaxEnvSteps
    /\ src[id].exists
    /\ UpToDate(rrn[id], src[id], FALSE) \/ UpToDate(ci[id], src[id], FALSE)
    /\ src' = [src EXCEPT ![id].mtime = clock]
    /\ clock' = clock + 1
    /\ quiet' = FALSE
    /\ nenv' = nenv + 1
    /\ UNCHANGED <<config, manifest, obj, rrn, ci, dirs, inv, nbuilds, nb, md,
                   ex>>

Next ==
    \/ Construct
    \/ \E arg \in IncludeArgs, force \in BOOLEAN, conv \in ConverterStates :
           BuildRrn(arg, force, conv)
    \/ \E arg \in IncludeArgs, force \in BOOLEAN : BuildCi(arg, force)
    \/ \E id \in Ids : TouchSource(id)

Spec == Init /\ [][Next]_vars

-----------------------------------------------------------------------------
(* Reading the record of the last invocation.                              *)

LogIndex == 1..Len(inv.log)

\* The entry has an event of this kind in the last invocation.
Did(id, ev) == \E i \in LogIndex : inv.log[i].id = id /\ inv.log[i].ev = ev

DidWith(id, ev, arg) ==
    \E i \in LogIndex : inv.log[i].id = id /\ inv.log[i].ev = ev /\ inv.log[i].arg = arg

\* A file was written for the entry: its artifact, or its source by sync.
WroteArtifact(id) == Did(id, "write") \/ Did(id, "copy")
WroteAnything(id) == WroteArtifact(id) \/ Did(id, "sync")

Skipped(id) == DidWith(id, "staleness", "skip")

\* The transforms applied to the entry, in order.
TransformsOf(id) ==
    LET idx == SelectSeq([i \in LogIndex |-> i],
                         LAMBDA i : inv.log[i].id = id /\ inv.log[i].ev = "transform")
    IN [k \in 1..Len(idx) |-> inv.log[idx[k]].arg]

\* The artifacts of the target of the last invocation.
Artifacts == IF inv.target = "ci" THEN ci ELSE rrn

\* The entries the last invocation iterates over.
Iterated == Range(ProcessingOrder(manifest, inv.target))

\* The support flags admit the entry to the target (spec, 4.1 Selection).
Eligible(entry, target) ==
    IF target = "ci"
    THEN entry.kind = "notebook" /\ entry.ci_support # "false"
         /\ entry.colab_support # "not_applicable"
    ELSE entry.nexus_support = "true"

\* The id passes the id filter the caller gave, if any.
PassesFilter(arg, id) == arg = <<>> \/ id \in arg[1]

\* The artifact existed, newer than its source, when the invocation began.
WasUpToDate(id) ==
    /\ inv.dstBefore[id].exists
    /\ inv.srcBefore[id].exists
    /\ inv.dstBefore[id].mtime > inv.srcBefore[id].mtime

NoFileChanged == Artifacts = inv.dstBefore /\ (quiet => src = inv.srcBefore)

\* The names _apply_transform and _apply_text_transform dispatch on.
KnownTransforms ==
    {"clear_outputs", "record_metadata", "replace_purple_hr", "remove_colab_only",
     "tag_ci_skip_nexus_only", "remove_nexus_only_cells", "insert_rrn_footer",
     "footer", "warn_required_sections", "convert_rst_to_notebook"}

KnownTextTransforms ==
    {"build_like_website", "footer", "insert_rrn_footer", "clear_outputs",
     "record_metadata", "remove_colab_only", "replace_purple_hr",
     "warn_required_sections"}

\* How the target produces the artifact of an entry: as a notebook, as a
\* text run through the text-mode transforms, or as a verbatim copy.
Form(entry, target) ==
    IF target = "ci" \/ entry.kind = "notebook" THEN "notebook"
    ELSE IF entry.kind = "script"
    THEN IF entry.rrn_target = "" \/ Suffix(entry.rrn_target) = ".ipynb"
         THEN "notebook" ELSE "copy"
    ELSE IF entry.source_suffix = ".md" /\ entry.rrn_transforms # <<>>
    THEN "text" ELSE "copy"

\* The transform list of the entry for the target: the explicit list or the
\* default; for a notebook of the rrn target without "sync" and with the
\* implicit tagging in front.
Listed(entry, target) ==
    IF target = "ci"
    THEN IF entry.ci_transforms # <<>> THEN entry.ci_transforms ELSE DefaultCiTransforms
    ELSE IF entry.kind = "notebook"
    THEN LET t == IF entry.rrn_transforms # <<>> THEN entry.rrn_transforms
                  ELSE DefaultRrnTransforms
             u == SelectSeq(t, LAMBDA x : x # "sync")
         IN IF "tag_ci_skip_nexus_only" \in Range(t) THEN u
            ELSE <<"tag_ci_skip_nexus_only">> \o u
    ELSE entry.rrn_transforms

UnknownNames(entry, target) ==
    Range(Listed(entry, target)) \
        (IF Form(entry, target) = "text" THEN KnownTextTransforms ELSE KnownTransforms)

FirstUnknown(entry, target) ==
    LET l == Listed(entry, target)
        i == CHOOSE k \in 1..Len(l) :
                 /\ l[k] \notin KnownTransforms
                 /\ \A m \in 1..(k - 1) : l[m] \in KnownTransforms
    IN l[i]

\* The transforms a completed pass over the entry has applied.
ExpectedTransforms(entry, target) ==
    CASE Form(entry, target) = "notebook" -> Listed(entry, target)
      [] Form(entry, target) = "text" ->
             SelectSeq(Listed(entry, target), LAMBDA x : x \in KnownTextTransforms)
      [] OTHER -> <<>>

\* The place of an entry in the processing order of the last invocation.
Pos(id) ==
    LET order == ProcessingOrder(manifest, inv.target)
    IN CHOOSE k \in 1..Len(order) : order[k].id = id

\* The entry the last invocation failed on (when it raised).
FailingId == inv.log[Len(inv.log)].id

\* The pass over the entry ran to its end.
Completed(id) ==
    inv.result = "returned" \/ (inv.result = "raised" /\ Pos(id) < Pos(FailingId))

NoEvent(id) == \A i \in LogIndex : inv.log[i].id # id

-----------------------------------------------------------------------------
(* C1: for both targets and every entry kind, an eligible entry whose      *)
(* artifact exists and is newer than its source, with force unset, gets no *)
(* transform, no write, and its path is not reported as written; and an    *)
(* invocation where every eligible entry is in that state returns an empty *)
(* list and modifies no file.                                              *)
(* The code reports every up-to-date script and other entry as written.    *)
C1_UpToDateEntryUntouched ==
    (inv.active /\ ~inv.force) =>
        /\ \A e \in Iterated :
               (Eligible(e, inv.target) /\ WasUpToDate(e.id)) =>
                   /\ TransformsOf(e.id) = <<>>
                   /\ ~WroteAnything(e.id)
                   /\ e.id \notin Range(inv.written)
        /\ (\A e \in Iterated : Eligible(e, inv.target) => WasUpToDate(e.id)) =>
               /\ inv.result = "returned"
               /\ inv.written = <<>>
               /\ NoFileChanged

(* C2: after an invocation that returned, an immediately following         *)
(* invocation of the same target with the same id filter and force unset,  *)
(* no source having been changed from outside in between, performs no file *)
(* write at all, sync entries included.                                    *)
(* The code re-copies every copy2 artifact (copy2 keeps the source's       *)
(* modification time, so the artifact is never newer) and fetches every    *)
(* sync entry again.                                                       *)
C2_RepeatedBuildWritesNothing ==
    (inv.active /\ inv.repeat /\ ~inv.force) =>
        \A e \in Iterated : ~WroteAnything(e.id)

-----------------------------------------------------------------------------
C4_FatalFailureAbortsBuild ==
    inv.active =>
        /\ (\E e \in Iterated : Did(e.id, "raise")) => inv.result = "raised"
        /\ inv.result = "returned" =>
               \A e \in Iterated :
                   (Eligible(e, inv.target) /\ ~Filtered(IncludeIds(inv.arg), e.id)) =>
                       inv.srcBefore[e.id].exists \/ Did(e.id, "sync")
        /\ inv.result = "raised" =>
               /\ inv.log # <<>>
               /\ inv.log[Len(inv.log)].ev = "raise"
               /\ \A i \in 1..(Len(inv.log) - 1) : inv.log[i].ev # "raise"
               /\ inv.error.type # ""
               /\ inv.written = <<>>
               /\ ~WroteArtifact(FailingId)
               /\ Artifacts[FailingId] = inv.dstBefore[FailingId]
               /\ \A e \in Iterated :
                      /\ Pos(e.id) > Pos(FailingId) =>
                             /\ NoEvent(e.id)
                             /\ Artifacts[e.id] = inv.dstBefore[e.id]
                             /\ quiet => src[e.id] = inv.srcBefore[e.id]
                      /\ Pos(e.id) < Pos(FailingId) =>
                             /\ Did(e.id, "write") =>
                                    /\ Artifacts[e.id].exists
                                    /\ Artifacts[e.id].mtime >= inv.srcBefore[e.id].mtime
                                    /\ Artifacts[e.id] # inv.dstBefore[e.id]
                             /\ Did(e.id, "copy") => Artifacts[e.id] = inv.srcBefore[e.id]

C4_Witness ==
    /\ inv.active
    /\ inv.result = "raised"
    /\ \E e \in Iterated : Pos(e.id) < Pos(FailingId) /\ Did(e.id, "write")
    /\ \E e \in Iterated :
           /\ Pos(e.id) > Pos(FailingId)
           /\ Eligible(e, inv.target)
           /\ ~Filtered(IncludeIds(inv.arg), e.id)
           /\ inv.srcBefore[e.id].exists

(* C5: build_rrn never transforms or writes an entry whose nexus_support   *)
(* is absent or false; build_ci never transforms or writes a notebook      *)
(* whose ci_support is false or whose colab_support is not_applicable;     *)
(* every other entry that passes the id filter and is not skipped as up to *)
(* date is transformed and written.                                        *)
(* The last part fails when the build aborts and for verbatim copies.      *)
C5_EligibilityAllOthersBuilt ==
    inv.active =>
        \A e \in Iterated :
            /\ ~Eligible(e, inv.target) =>
                   TransformsOf(e.id) = <<>> /\ ~WroteAnything(e.id)
            /\ (Eligible(e, inv.target) /\ PassesFilter(inv.arg, e.id)
                 /\ ~Skipped(e.id)) =>
                   TransformsOf(e.id) # <<>> /\ WroteArtifact(e.id)

(* C5, as the code has it: an ineligible entry is not touched at all; an   *)
(* eligible entry that passes the id filter and is not skipped as up to    *)
(* date, in an invocation that returns or before the entry an invocation   *)
(* fails on, is written and reported: a notebook-form artifact with the    *)
(* transforms of its list, a text artifact with the known text transforms  *)
(* of its list, a verbatim copy with none.                                 *)
C5_EligibilityOfCompletedPasses ==
    inv.active =>
        \A e \in Iterated :
            /\ ~Eligible(e, inv.target) =>
                   /\ NoEvent(e.id)
                   /\ e.id \notin Range(inv.written)
                   /\ Artifacts[e.id] = inv.dstBefore[e.id]
                   /\ quiet => src[e.id] = inv.srcBefore[e.id]
            /\ (Eligible(e, inv.target) /\ PassesFilter(inv.arg, e.id)
                 /\ ~Skipped(e.id) /\ Completed(e.id)) =>
                   /\ WroteArtifact(e.id)
                   /\ Artifacts[e.id].exists
                   /\ TransformsOf(e.id) = ExpectedTransforms(e, inv.target)
                   /\ inv.result = "returned" => e.id \in Range(inv.written)

C5_Witness ==
    /\ inv.active
    /\ inv.result = "returned"
    /\ \E e \in Iterated :
           ~Eligible(e, inv.target) /\ inv.srcBefore[e.id].exists
           /\ PassesFilter(inv.arg, e.id)
    /\ \E e \in Iterated :
           /\ Eligible(e, inv.target) /\ PassesFilter(inv.arg, e.id)
           /\ Did(e.id, "write")
           /\ TransformsOf(e.id) # <<>>

(* C6: if an id filter is given, for every collection of ids supplied by   *)
(* the caller, of any size, every entry that is transformed or written has *)
(* its id in that collection.                                              *)
(* The code takes an empty collection for no filter and builds everything. *)
C6_OnlyMatchingIdsConsidered ==
    (inv.active /\ inv.arg # <<>>) =>
        \A e \in Iterated :
            (TransformsOf(e.id) # <<>> \/ WroteAnything(e.id)) => e.id \in inv.arg[1]

(* C7: with force set, every eligible entry that passes the id filter has  *)
(* its transform list applied and its destination written, whatever the    *)
(* modification times; and the staleness decision is taken only before any *)
(* transform of the entry runs.                                            *)
(* The first part fails when the build aborts and for verbatim copies.     *)
C7_ForceBuildsEveryEligibleEntry ==
    inv.active =>
        /\ inv.force =>
               \A e \in Iterated :
                   (Eligible(e, inv.target) /\ PassesFilter(inv.arg, e.id)) =>
                       /\ WroteArtifact(e.id)
                       /\ (Range(Listed(e, inv.target)) \ UnknownNames(e, inv.target))
                              \subseteq Range(TransformsOf(e.id))
        /\ \A i, j \in LogIndex :
               (inv.log[i].ev = "transform" /\ inv.log[j].ev = "staleness"
                /\ inv.log[i].id = inv.log[j].id) => j < i

(* C7, as the code has it: with force set no entry is skipped, and every   *)
(* eligible entry that passes the id filter, in an invocation that returns *)
(* or before the entry an invocation fails on, is written anew whatever    *)
(* the modification times (notebook-form with its list, text with the      *)
(* known text transforms of its list, verbatim copies with none); the      *)
(* staleness decision is taken once per entry, before any document         *)
(* transform, load or write of that entry.                                 *)
C7_ForceOverridesStaleness ==
    inv.active =>
        /\ inv.force =>
               \A e \in Iterated :
                   /\ ~Skipped(e.id)
                   /\ (Eligible(e, inv.target) /\ PassesFilter(inv.arg, e.id)
                        /\ Completed(e.id)) =>
                          /\ WroteArtifact(e.id)
                          /\ TransformsOf(e.id) = ExpectedTransforms(e, inv.target)
                          /\ Did(e.id, "write") =>
                                 /\ Artifacts[e.id].mtime > inv.dstBefore[e.id].mtime
                                 /\ Artifacts[e.id].mtime > inv.srcBefore[e.id].mtime
                          /\ Did(e.id, "copy") => Artifacts[e.id] = inv.srcBefore[e.id]
        /\ \A i, j \in LogIndex :
               (inv.log[j].ev = "staleness" /\ inv.log[i].id = inv.log[j].id) =>
                   /\ inv.log[i].ev = "staleness" => i = j
                   /\ inv.log[i].ev \in {"transform", "load", "write", "copy", "warn"} => j < i
                   /\ (inv.log[j].arg = "skip" /\ i > j) => inv.log[i].ev = "staleness"

C7_Witness ==
    /\ inv.active
    /\ inv.force
    /\ \E e \in Iterated :
           /\ WasUpToDate(e.id)
           /\ Did(e.id, "write")
           /\ TransformsOf(e.id) # <<>>
           /\ Artifacts[e.id].mtime > inv.dstBefore[e.id].mtime

\* What __init__ refuses: no notebooks key, no footer file, a marker missing.
BadConfiguration ==
    \/ ~manifest.has_notebooks
    \/ ~config.footer.exists
    \/ FooterStart \notin Range(config.footer.text)
    \/ FooterEnd \notin Range(config.footer.text)

(* C8: if the manifest lacks the notebooks key, or the footer template is  *)
(* absent or lacks the start or the end marker, constructing the           *)
(* orchestrator raises, and no build directory is created, no source is    *)
(* fetched and no artifact is written.                                     *)
C8_ConfigurationErrorsFatalAtConstruction ==
    /\ (BadConfiguration /\ obj.state # "none") =>
           /\ obj.state = "failed"
           /\ obj.error.type \in {"ValueError", "FileNotFoundError"}
           /\ ~manifest.has_notebooks => obj.error = [type |-> "ValueError", arg |-> "notebooks"]
    /\ obj.state # "ready" =>
           /\ ~dirs.rrn /\ ~dirs.ci
           /\ \A id \in Ids : ~rrn[id].exists /\ ~ci[id].exists /\ src[id].mtime <= 1
           /\ ~inv.active
           /\ nbuilds = 0 /\ clock = 2
    /\ (~BadConfiguration /\ obj.state # "none") => obj.state = "ready"

C8_Witness ==
    /\ obj.state = "failed"
    /\ manifest.has_notebooks
    /\ config.footer.exists
    /\ FooterStart \in Range(config.footer.text)
    /\ FooterEnd \notin Range(config.footer.text)
    /\ \E id \in Ids : src[id].exists

(* C9: for an entry with nexus_support true and no explicit rrn transform  *)
(* list, whose source notebook has a code cell with a non-empty output     *)
(* list and a set execution count, the notebook build_rrn writes contains  *)
(* that cell with an empty output list and no execution count, and its     *)
(* metadata has an rges_sync block whose source_id is the id of the entry. *)
C9_DefaultRrnBuildClearsAndRecords ==
    (inv.active /\ inv.target = "rrn") =>
        \A e \in Iterated :
            (e.kind = "notebook" /\ e.nexus_support = "true" /\ e.rrn_transforms = <<>>
             /\ Did(e.id, "write")) =>
                LET before == inv.srcBefore[e.id].nb.cells
                    after == rrn[e.id].nb
                IN /\ rrn[e.id].form = "nb"
                   /\ \A i \in 1..Len(before) :
                          (before[i].cell_type = "code" /\ before[i].outputs # <<>>
                           /\ before[i].execution_count # <<>>) =>
                              /\ i <= Len(after.cells)
                              /\ after.cells[i].cell_type = "code"
                              /\ after.cells[i].source = before[i].source
                              /\ after.cells[i].outputs = <<>>
                              /\ after.cells[i].execution_count = <<>>
                   /\ \A j \in 1..Len(after.cells) :
                          after.cells[j].outputs = <<>> /\ after.cells[j].execution_count = <<>>
                   /\ Len(after.metadata.rges_sync) = 1
                   /\ after.metadata.rges_sync[1].source_id = e.id

C9_Witness ==
    /\ inv.active /\ inv.target = "rrn"
    /\ \E e \in Iterated :
           /\ e.kind = "notebook" /\ e.nexus_support = "true" /\ e.rrn_transforms = <<>>
           /\ Did(e.id, "write")
           /\ \E i \in 1..Len(inv.srcBefore[e.id].nb.cells) :
                  /\ inv.srcBefore[e.id].nb.cells[i].outputs = <<"[1, 2, 3]">>
                  /\ inv.srcBefore[e.id].nb.cells[i].execution_count = <<5>>
                  /\ rrn[e.id].nb.cells[i].outputs = <<>>
           /\ rrn[e.id].nb.metadata.rges_sync # <<>>

(* C10: in every notebook artifact written by build_rrn, whatever the list *)
(* of the entry, the platform-only-skip tagging has been applied: when     *)
(* tag_ci_skip_nexus_only is not in the list it runs before all listed     *)
(* transforms, so every code cell of the written notebook with a           *)
(* NEXUS-ONLY or %source line carries the ci-skip tag.                     *)
(* A script wrapped as a notebook gets the transforms of its list only.    *)
C10_EveryRrnNotebookArtifactTagged ==
    (inv.active /\ inv.target = "rrn") =>
        \A e \in Iterated :
            DidWith(e.id, "write", "notebook") =>
                /\ "tag_ci_skip_nexus_only" \notin Range(e.rrn_transforms) =>
                       /\ TransformsOf(e.id) # <<>>
                       /\ TransformsOf(e.id)[1] = "tag_ci_skip_nexus_only"
                /\ \A i \in 1..Len(rrn[e.id].nb.cells) :
                       TagMarked(rrn[e.id].nb.cells[i]) =>
                           HasTag(rrn[e.id].nb.cells[i], "ci-skip")

(* C10, as the code has it: the statement holds of the artifacts of the    *)
(* entries of the notebooks list; a script wrapped as a notebook gets the  *)
(* transforms of its own list and nothing else.                            *)
C10_RrnNotebookEntriesTagged ==
    (inv.active /\ inv.target = "rrn") =>
        \A e \in Iterated :
            DidWith(e.id, "write", "notebook") =>
                /\ e.kind = "notebook" =>
                       /\ "tag_ci_skip_nexus_only" \notin Range(e.rrn_transforms) =>
                              /\ TransformsOf(e.id) # <<>>
                              /\ TransformsOf(e.id)[1] = "tag_ci_skip_nexus_only"
                       /\ "tag_ci_skip_nexus_only" \in Range(TransformsOf(e.id))
                       /\ \A i \in 1..Len(rrn[e.id].nb.cells) :
                              TagMarked(rrn[e.id].nb.cells[i]) =>
                                  HasTag(rrn[e.id].nb.cells[i], "ci-skip")
                /\ e.kind = "script" => TransformsOf(e.id) = e.rrn_transforms

C10_Witness ==
    /\ inv.active /\ inv.target = "rrn"
    /\ \E e \in Iterated :
           /\ e.kind = "notebook"
           /\ "tag_ci_skip_nexus_only" \notin Range(e.rrn_transforms)
           /\ DidWith(e.id, "write", "notebook")
           /\ \E i \in 1..Len(rrn[e.id].nb.cells) :
                  /\ HasSourceMagic(rrn[e.id].nb.cells[i].source)
                  /\ ~HasNexusOnly(rrn[e.id].nb.cells[i].source)
                  /\ HasTag(rrn[e.id].nb.cells[i], "ci-skip")

-----------------------------------------------------------------------------
(* The transform registry on its own: a notebook is taken through          *)
(* _apply_transform one name at a time, with the footer template that      *)
(* __init__ loaded.                                                        *)

MaxApplied == 3

TransformNames ==
    {"clear_outputs", "record_metadata", "replace_purple_hr", "remove_colab_only",
     "tag_ci_skip_nexus_only", "remove_nexus_only_cells", "insert_rrn_footer",
     "warn_required_sections"}

\* footer.md as found on disk: the markers alone around the body, a title
\* line before the start marker, the end marker before the start marker.
TemplateFiles ==
    { TextFile(FooterText \o <<"">>, 1),
      TextFile(<<"", "RGES PIT notebooks">> \o FooterText, 1),
      TextFile(<<FooterEnd, "Maintained by the RGES PIT.", FooterStart>>, 1) }

\* A markdown cell with a start marker that no end marker follows, before a
\* markdown cell with the marker pair.
DanglingStartNotebook ==
    [cells |-> <<MarkdownCell(<<"## Notes", FooterStart, "to be written">>, <<>>),
                 CodeCell(<<"z = 0">>, <<>>, <<"0">>, <<3>>),
                 MarkdownCell(<<FooterStart, "old footer", FooterEnd>>, <<"keep">>)>>,
     metadata |-> NoMetadata]

\* The markers in a code cell only.
CodeMarkerNotebook ==
    [cells |-> <<CodeCell(<<FooterStart, "print(1)", FooterEnd>>, <<>>, <<>>, <<>>),
                 MarkdownCell(<<"# Title", PurpleHrLine>>, <<"colab-only">>)>>,
     metadata |-> NoMetadata]

\* Two delimited regions in one markdown cell.
TwoRegionsNotebook ==
    [cells |-> <<MarkdownCell(<<FooterStart, "a", FooterEnd, "between",
                                FooterStart, "b", FooterEnd>>, <<>>)>>,
     metadata |-> NoMetadata]

\* Cells already tagged, markers in a markdown cell, a marker after whitespace.
TaggedNotebook ==
    [cells |-> <<CodeCell(<<NexusOnlyLine, "login()">>, <<"keep", "ci-skip">>, <<>>, <<>>),
                 MarkdownCell(<<NexusOnlyLine, SourceMagicLine>>, <<"nexus-only">>),
                 CodeCell(<<"  #NEXUS-ONLY setup">>, <<"slow">>, <<"ok">>, <<4>>),
                 CodeCell(<<"plot()">>, <<"nexus-only">>, <<>>, <<>>),
                 CodeCell(<<"import os">>, <<"ci-skip">>, <<>>, <<>>)>>,
     metadata |-> [kernelspec |-> <<[name |-> "python3", display_name |-> "Python 3",
                                     version |-> "3.12"]>>,
                   rges_sync |-> <<>>]]

TransformDocuments ==
    {RichNotebook, PlainNotebook, DanglingStartNotebook, CodeMarkerNotebook,
     TwoRegionsNotebook, TaggedNotebook, _new_notebook}

PlainManifest == CHOOSE m \in Manifests : Range(AllEntries(m)) \subseteq PlainEntries

TransformInit ==
    /\ manifest = PlainManifest
    /\ config \in {[footer |-> f] : f \in TemplateFiles}
    /\ obj = __init__(manifest, config.footer)
    /\ obj.state = "ready"
    /\ src = [id \in Ids |-> NoFile]
    /\ rrn = [id \in Ids |-> NoFile]
    /\ ci = [id \in Ids |-> NoFile]
    /\ dirs = [rrn |-> FALSE, ci |-> FALSE]
    /\ clock = 2
    /\ inv = NoInvocation @@ [srcBefore |-> src, dstBefore |-> rrn]
    /\ quiet = TRUE
    /\ nbuilds = 0
    /\ nenv = 0
    /\ \E d \in TransformDocuments :
           nb = [orig |-> d, prev |-> d, doc |-> d, plain |-> d, applied |-> <<>>]
    /\ md = NoNormalizerRun
    /\ ex = NoExportRun

\* self._apply_transform(transform, notebook_data, entry); nb.plain is the
\* same notebook taken through the same names without warn_required_sections.
ApplyTransform(transform) ==
    /\ Len(nb.applied) < MaxApplied
    /\ LET entry == manifest.notebooks[1]
           st == Start(rrn, "ok")
           r == _apply_transform(transform, st, nb.doc, entry)
           p == IF transform = "warn_required_sections" THEN nb.plain
                ELSE _apply_transform(transform, st, nb.plain, entry).doc
       IN nb' = [orig |-> nb.orig, prev |-> nb.doc, doc |-> r.doc, plain |-> p,
                 applied |-> Append(nb.applied, transform)]
    /\ UNCHANGED <<config, manifest, obj, src, rrn, ci, dirs, clock, inv, quiet,
                   nbuilds, nenv, md, ex>>

TransformNext == \E transform \in TransformNames : ApplyTransform(transform)

TransformSpec == TransformInit /\ [][TransformNext]_vars

\* The last name applied, and whether the last n names are all this one.
LastApplied == IF nb.applied = <<>> THEN "" ELSE nb.applied[Len(nb.applied)]

AppliedTwice(transform) ==
    /\ Len(nb.applied) >= 2
    /\ nb.applied[Len(nb.applied)] = transform
    /\ nb.applied[Len(nb.applied) - 1] = transform

\* The text has a start marker that an end marker follows.
HasFooterRegion(text) ==
    \E i, j \in 1..Len(text) : i < j /\ text[i] = FooterStart /\ text[j] = FooterEnd

(* C11: for every document and every footer template accepted at load      *)
(* time, applying insert footer to a document to which insert footer has   *)
(* already been applied leaves the document unchanged.                     *)
(* With a template that has text outside its markers the code inserts that *)
(* text again on every application.                                        *)
C11_InsertFooterIdempotent ==
    AppliedTwice("insert_rrn_footer") => nb.doc = nb.prev

(* C12: insert footer: if no markdown cell contains the start marker, one  *)
(* markdown cell holding the template is appended and the existing cells   *)
(* are unchanged; if a markdown cell contains the marker pair, the region  *)
(* in the first such cell is replaced by the template, the cell count is   *)
(* unchanged and every other cell is unchanged.                            *)
(* The code stops at the first markdown cell with a start marker, pair or  *)
(* not, so a pair in a later cell is never replaced.                       *)
C12_InsertFooterAppendsOrReplaces ==
    LastApplied = "insert_rrn_footer" =>
        LET before == nb.prev.cells
            after == nb.doc.cells
            starts == {i \in 1..Len(before) :
                          before[i].cell_type = "markdown" /\ HasFooterStart(before[i].source)}
            pairs == {i \in 1..Len(before) :
                         before[i].cell_type = "markdown" /\ HasFooterRegion(before[i].source)}
        IN /\ starts = {} =>
                  after = Append(before, MarkdownCell(obj.footer, <<>>))
           /\ pairs # {} =>
                  LET k == CHOOSE i \in pairs : \A j \in pairs : i <= j
                  IN /\ Len(after) = Len(before)
                     /\ after[k] = [before[k] EXCEPT
                                       !.source = FooterSub(before[k].source, obj.footer)]
                     /\ \A i \in 1..Len(before) : i # k => after[i] = before[i]

(* C13: clear outputs: afterwards every code cell has an empty output list *)
(* and an unset execution counter, while markdown cells, the number and    *)
(* order of cells, and the source and metadata of every cell are           *)
(* unchanged; applying it twice yields the same as applying it once.       *)
C13_ClearOutputs ==
    LastApplied = "clear_outputs" =>
        LET before == nb.prev.cells
            after == nb.doc.cells
        IN /\ Len(after) = Len(before)
           /\ nb.doc.metadata = nb.prev.metadata
           /\ \A i \in 1..Len(before) :
                  IF before[i].cell_type = "code"
                  THEN after[i] = [before[i] EXCEPT !.outputs = <<>>,
                                                    !.execution_count = <<>>]
                  ELSE after[i] = before[i]
           /\ AppliedTwice("clear_outputs") => nb.doc = nb.prev

C13_Witness ==
    /\ AppliedTwice("clear_outputs")
    /\ \E i \in 1..Len(nb.orig.cells) :
           /\ nb.orig.cells[i].outputs # <<>>
           /\ nb.orig.cells[i].execution_count # <<>>
           /\ nb.orig.cells[i].tags # <<>>
    /\ \E i \in 1..Len(nb.orig.cells) : nb.orig.cells[i].cell_type = "markdown"

\* How often the tag occurs in the tag list.
TagCount(tags, tag) == Len(SelectSeq(tags, LAMBDA x : x = tag))

(* C14: tag platform-only cells: every code cell whose source has a line   *)
(* starting, after optional whitespace, with the NEXUS-ONLY comment or     *)
(* %source stays in place and afterwards has ci-skip exactly once in its   *)
(* tag list, however often the transform is applied and whether or not the *)
(* tag was there; pre-existing tags are kept, no cell is removed or        *)
(* reordered, cells without a marker and non-code cells get no tag.        *)
C14_TagPlatformOnlyCells ==
    LastApplied = "tag_ci_skip_nexus_only" =>
        LET before == nb.prev.cells
            after == nb.doc.cells
        IN /\ Len(after) = Len(before)
           /\ nb.doc.metadata = nb.prev.metadata
           /\ \A i \in 1..Len(before) :
                  IF before[i].cell_type = "code"
                     /\ (HasNexusOnly(before[i].source) \/ HasSourceMagic(before[i].source))
                  THEN /\ after[i] = [before[i] EXCEPT !.tags = after[i].tags]
                       /\ TagCount(after[i].tags, "ci-skip") = 1
                       /\ after[i].tags =
                              IF HasTag(before[i], "ci-skip") THEN before[i].tags
                              ELSE Append(before[i].tags, "ci-skip")
                  ELSE after[i] = before[i]
           /\ AppliedTwice("tag_ci_skip_nexus_only") => nb.doc = nb.prev

C14_Witness ==
    /\ AppliedTwice("tag_ci_skip_nexus_only")
    /\ \E i, j \in 1..Len(nb.orig.cells) :
           /\ TagMarked(nb.orig.cells[i]) /\ HasTag(nb.orig.cells[i], "ci-skip")
           /\ TagMarked(nb.orig.cells[j]) /\ ~HasTag(nb.orig.cells[j], "ci-skip")
           /\ nb.orig.cells[j].tags # <<>>
           /\ TagCount(nb.doc.cells[j].tags, "ci-skip") = 1
    /\ \E i \in 1..Len(nb.orig.cells) :
           nb.orig.cells[i].cell_type = "markdown" /\ HasNexusOnly(nb.orig.cells[i].source)

\* A code cell that belongs to the platform only (spec, remove platform-only cells).
PlatformOnly(cell) ==
    /\ cell.cell_type = "code"
    /\ \/ HasTag(cell, "nexus-only")
       \/ HasNexusOnly(cell.source)
       \/ HasSourceMagic(cell.source)
       \/ HasKernelActivate(cell.source)

(* C15: remove platform-only cells deletes exactly the code cells that     *)
(* carry a nexus-only tag, or whose source has a NEXUS-ONLY or %source     *)
(* line, or mentions kernel-activate; every non-code cell and every other  *)
(* code cell remains, unmodified and in its original relative order.       *)
C15_RemovePlatformOnlyCells ==
    LastApplied = "remove_nexus_only_cells" =>
        /\ nb.doc.cells = SelectSeq(nb.prev.cells, LAMBDA c : ~PlatformOnly(c))
        /\ nb.doc.metadata = nb.prev.metadata
        /\ \A i \in 1..Len(nb.doc.cells) : ~PlatformOnly(nb.doc.cells[i])

C15_Witness ==
    /\ LastApplied = "remove_nexus_only_cells"
    /\ Len(nb.doc.cells) < Len(nb.prev.cells)
    /\ Len(nb.doc.cells) >= 2
    /\ \E i \in 1..Len(nb.prev.cells) :
           /\ nb.prev.cells[i].cell_type = "code"
           /\ HasKernelActivate(nb.prev.cells[i].source)
           /\ ~HasSourceMagic(nb.prev.cells[i].source)
           /\ ~HasTag(nb.prev.cells[i], "nexus-only")

\* a is b with some elements left out.
RECURSIVE IsSubseq(_, _)
IsSubseq(a, b) ==
    IF a = <<>> THEN TRUE
    ELSE IF b = <<>> THEN FALSE
    ELSE IF Head(a) = Head(b) THEN IsSubseq(Tail(a), Tail(b))
    ELSE IsSubseq(a, Tail(b))

(* C16: for any sequence of transforms other than the conversion, the      *)
(* cells that survive keep their relative order; only the removal          *)
(* transforms decrease the cell count, only insert footer increases it, by *)
(* at most one cell appended at the end, and clear outputs, record         *)
(* metadata, replace decorative marker, tag platform-only cells and warn   *)
(* on missing sections leave the cell count and order unchanged.           *)
C16_CellOrderInvariant ==
    nb.applied # <<>> =>
        LET before == nb.prev.cells
            after == nb.doc.cells
            t == LastApplied
        IN /\ t \in {"remove_colab_only", "remove_nexus_only_cells"} =>
                  IsSubseq(after, before) /\ Len(after) <= Len(before)
           /\ t = "insert_rrn_footer" =>
                  /\ Len(after) \in {Len(before), Len(before) + 1}
                  /\ Len(after) = Len(before) + 1 =>
                         /\ SubSeq(after, 1, Len(before)) = before
                         /\ after[Len(after)].cell_type = "markdown"
                  /\ Len(after) = Len(before) =>
                         /\ Cardinality({i \in 1..Len(before) : after[i] # before[i]}) <= 1
                         /\ \A i \in 1..Len(before) :
                                /\ after[i].cell_type = before[i].cell_type
                                /\ after[i].tags = before[i].tags
           /\ t \in {"clear_outputs", "record_metadata", "replace_purple_hr",
                      "tag_ci_skip_nexus_only", "warn_required_sections"} =>
                  /\ Len(after) = Len(before)
                  /\ \A i \in 1..Len(before) :
                         /\ after[i].cell_type = before[i].cell_type
                         /\ t \in {"clear_outputs", "tag_ci_skip_nexus_only"} =>
                                after[i].source = before[i].source
                         /\ t = "replace_purple_hr" =>
                                /\ after[i].tags = before[i].tags
                                /\ after[i].outputs = before[i].outputs
                                /\ Len(after[i].source) = Len(before[i].source)
                         /\ t \in {"record_metadata", "warn_required_sections"} =>
                                after[i] = before[i]

C16_Witness ==
    /\ Len(nb.applied) = 3
    /\ nb.applied[1] = "insert_rrn_footer"
    /\ nb.applied[3] = "remove_colab_only"
    /\ Len(nb.orig.cells) + 1 = Len(nb.prev.cells)
    /\ Len(nb.doc.cells) < Len(nb.prev.cells)
    /\ Len(nb.doc.cells) >= 2

-----------------------------------------------------------------------------
(* Conversion and the required-sections warning within a build.            *)

\* The entry's list as the last invocation used it, from the name after
\* convert_rst_to_notebook on.
AfterConversion(entry) ==
    LET l == Listed(entry, inv.target)
        k == CHOOSE i \in 1..Len(l) : l[i] = "convert_rst_to_notebook"
    IN SubSeq(l, k + 1, Len(l))

Converted(entry) == DidWith(entry.id, "transform", "convert_rst_to_notebook")

\* The fallback cell: a title, a note, and the raw text fenced as plain text.
FallbackSource(rst_text) ==
    <<"# Notebook Content", "> Note: RST conversion requires docutils.", "'''text">>
        \o rst_text \o <<"'''">>

(* C17: whenever the conversion is unavailable or fails at either stage    *)
(* (markup to HTML, or HTML to markdown and normalization), the transform  *)
(* does not raise, the single markdown cell is the fallback cell embedding *)
(* the raw text fenced as plain text, the build continues and the artifact *)
(* is written.                                                             *)
(* When the second stage fails the cell holds the intermediate HTML.       *)
C17_ConversionFallbackAtEitherStage ==
    (inv.active /\ inv.target = "rrn") =>
        \A e \in Iterated :
            (Converted(e) /\ inv.conv # "ok") =>
                /\ ~Did(e.id, "raise")
                /\ Did(e.id, "write")
                /\ rrn[e.id].nb.cells[1] =
                       MarkdownCell(FallbackSource(ReadText(src[e.id])), <<>>)

(* C17, as the code has it: the transform does not raise when a converter  *)
(* is unavailable or fails; when the markup-to-HTML stage fails the cell   *)
(* is the fallback cell embedding the raw text fenced as plain text, when  *)
(* the HTML-to-markdown stage fails the cell holds the intermediate HTML;  *)
(* the build goes on with the rest of the list and the artifact is         *)
(* written.                                                                *)
C17_ConversionFallbackByStage ==
    (inv.active /\ inv.target = "rrn") =>
        \A e \in Iterated :
            (Converted(e) /\ inv.conv # "ok") =>
                /\ ~Did(e.id, "raise")
                /\ TransformsOf(e.id) = Listed(e, "rrn")
                /\ Did(e.id, "write")
                /\ rrn[e.id].form = "nb"
                /\ rrn[e.id].nb.cells[1] =
                       MarkdownCell(IF inv.conv = "no_docutils"
                                    THEN FallbackSource(ReadText(src[e.id]))
                                    ELSE <<"<html body>">>, <<>>)

C17_Witness ==
    /\ inv.active /\ inv.target = "rrn"
    /\ inv.conv = "no_docutils"
    /\ \E e \in Iterated :
           /\ Converted(e)
           /\ Did(e.id, "write")
           /\ rrn[e.id].nb.cells[1].source = FallbackSource(RstText)

(* C18: the conversion replaces the document wholesale: whatever it held   *)
(* before (cells, tags, metadata stamped by earlier transforms such as     *)
(* record metadata), afterwards it has exactly one cell, of kind markdown, *)
(* and fresh top-level metadata; the effects of the transforms listed      *)
(* after the conversion are the only ones visible in the written artifact  *)
(* besides that cell.                                                      *)
C18_ConversionReplacesDocument ==
    (inv.active /\ inv.target = "rrn") =>
        \A e \in Iterated :
            (Converted(e) /\ Did(e.id, "write")) =>
                LET fresh == [cells |-> <<MarkdownCell(
                                  ConvertedSource(ReadText(src[e.id]), inv.conv), <<>>)>>,
                              metadata |-> NoMetadata]
                    rest == AfterConversion(e)
                    cells == rrn[e.id].nb.cells
                IN /\ rrn[e.id].nb = ApplyAll(rest, Start(rrn, inv.conv), fresh, e, TRUE).doc
                   /\ cells[1].cell_type = "markdown"
                   /\ cells[1].tags = <<>>
                   /\ "record_metadata" \notin Range(rest) =>
                          rrn[e.id].nb.metadata = NoMetadata
                   /\ Len(cells) = IF "insert_rrn_footer" \in Range(rest) THEN 2 ELSE 1

C18_Witness ==
    /\ inv.active /\ inv.target = "rrn"
    /\ \E e \in Iterated :
           /\ Converted(e)
           /\ DidWith(e.id, "transform", "record_metadata")
           /\ Did(e.id, "write")
           /\ rrn[e.id].nb.metadata.rges_sync = <<>>
           /\ Len(rrn[e.id].nb.cells) = 2

\* The notebook the last invocation would have written for a notebook entry
\* had warn_required_sections not been in its list.
WithoutWarning(entry) ==
    LET l == SelectSeq(Listed(entry, inv.target), LAMBDA x : x # "warn_required_sections")
        first == IF "convert_rst_to_notebook" \in Range(l) THEN _new_notebook
                 ELSE src[entry.id].nb
    IN ApplyAll(l, Start(Artifacts, inv.conv), first, entry, TRUE).doc

(* C19: warn_required_sections never raises and never changes a cell or    *)
(* the metadata, and an entry whose notebook lacks required sections still *)
(* has its artifact written, identical to the artifact produced with the   *)
(* warn transform removed from its list.                                   *)
C19_WarnRequiredSectionsIsInert ==
    inv.active =>
        \A e \in Iterated :
            DidWith(e.id, "transform", "warn_required_sections") =>
                /\ \A i \in LogIndex :
                       (inv.log[i].id = e.id /\ inv.log[i].ev = "raise") =>
                           inv.log[i].arg # "warn_required_sections"
                /\ (e.kind = "notebook" /\ ~Did(e.id, "raise")) =>
                       /\ Did(e.id, "write")
                       /\ Artifacts[e.id].form = "nb"
                       /\ Artifacts[e.id].nb = WithoutWarning(e)

C19_Witness ==
    /\ inv.active
    /\ \E e \in Iterated :
           /\ e.kind = "notebook"
           /\ DidWith(e.id, "transform", "warn_required_sections")
           /\ Did(e.id, "write")
           /\ \A i \in 1..Len(Artifacts[e.id].nb.cells) :
                  "# Introduction" \notin Range(Artifacts[e.id].nb.cells[i].source)

-----------------------------------------------------------------------------
(* The markdown normalizer, _clean_markdown.  A line is a sequence of      *)
(* atoms: single characters (" ", "'", "~", "#", "*", "-", ">", ".", a     *)
(* digit) and whole words or phrases that the normalizer treats as a unit  *)
(* ("System Message:", "note", "Title", ...).  A text is the sequence of   *)
(* its lines, as str.splitlines() gives them.                              *)

MaxLines == 4

RECURSIVE LStripLine(_)
LStripLine(line) ==
    IF line # <<>> /\ Head(line) = " " THEN LStripLine(Tail(line)) ELSE line

RECURSIVE RStripLine(_)
RStripLine(line) ==
    IF line # <<>> /\ line[Len(line)] = " "
    THEN RStripLine(SubSeq(line, 1, Len(line) - 1))
    ELSE line

\* line.strip()
StripLine(line) == RStripLine(LStripLine(line))

StartsWith(line, prefix) ==
    Len(line) >= Len(prefix) /\ SubSeq(line, 1, Len(prefix)) = prefix

EndsWith(line, suffix) ==
    Len(line) >= Len(suffix)
    /\ SubSeq(line, Len(line) - Len(suffix) + 1, Len(line)) = suffix

\* How many times the atom stands at the start of the line.
RECURSIVE RunLength(_, _)
RunLength(line, atom) ==
    IF line # <<>> /\ Head(line) = atom THEN 1 + RunLength(Tail(line), atom) ELSE 0

\* fence_pattern: leading whitespace, then three or more of one fence
\* character (written "'" here for the backtick, or "~"), then the rest.
FenceMatch(line) ==
    LET n == RunLength(line, " ")
        rest == SubSeq(line, n + 1, Len(line))
        char == IF rest = <<>> THEN "" ELSE rest[1]
        k == IF char \in {"'", "~"} THEN RunLength(rest, char) ELSE 0
    IN [ok |-> k >= 3, indent |-> SubSeq(line, 1, n), char |-> char, len |-> k,
        info |-> SubSeq(rest, k + 1, Len(rest))]

\* "~" * n
Tildes(n) == [i \in 1..n |-> "~"]

\* The loop over the buffer that computes required_len.
RECURSIVE RequiredLen(_, _)
RequiredLen(buffer, required_len) ==
    IF buffer = <<>> THEN required_len
    ELSE LET b == FenceMatch(Head(buffer))
         IN RequiredLen(Tail(buffer),
                        IF b.ok /\ b.len >= required_len THEN b.len + 1 ELSE required_len)

admonition_labels == {"note", "warning", "tip", "important"}

\* str.lower() and str.capitalize() of the one-word lines of this model.
Lower(atom) ==
    CASE atom \in {"note", "Note", "NOTE"} -> "note"
      [] atom \in {"warning", "Warning"} -> "warning"
      [] OTHER -> atom

Capitalize(atom) ==
    CASE atom \in {"note", "Note", "NOTE"} -> "Note"
      [] atom \in {"warning", "Warning"} -> "Warning"
      [] OTHER -> atom

\* A variant that takes no line for an admonition label.
IsAdmonitionNever(stripped) == FALSE

IsAdmonition(stripped) == Len(stripped) = 1 /\ Lower(stripped[1]) \in admonition_labels

\* re.match(r"\d+\.\s", stripped)
RECURSIVE NumberedItem(_, _)
NumberedItem(stripped, digits) ==
    IF stripped = <<>> THEN FALSE
    ELSE IF Head(stripped) \in {"1", "2"} THEN NumberedItem(Tail(stripped), digits + 1)
    ELSE digits >= 1 /\ Len(stripped) >= 2 /\ stripped[1] = "." /\ stripped[2] = " "

\* The heading the normalizer emits for a stripped line that starts with "#".
RECURSIVE StripChar(_, _)
StripChar(line, atom) ==
    IF line # <<>> /\ Head(line) = atom THEN StripChar(Tail(line), atom)
    ELSE IF line # <<>> /\ line[Len(line)] = atom
    THEN StripChar(SubSeq(line, 1, Len(line) - 1), atom)
    ELSE line

NormalizedHeading(stripped, first_heading_seen) ==
    LET unwrapped ==
            IF StartsWith(stripped, <<"#", " ", "*", "*">>) /\ EndsWith(stripped, <<"*", "*">>)
            THEN <<"#", " ">> \o
                 StripChar(StripLine(SubSeq(stripped, RunLength(stripped, "#") + 1,
                                            Len(stripped))), "*")
            ELSE stripped
    IN IF StartsWith(unwrapped, <<"#", " ">>) /\ first_heading_seen
       THEN <<"#", "#", " ">> \o SubSeq(unwrapped, 3, Len(unwrapped))
       ELSE unwrapped

\* lines[i].strip() == ""
IsBlank(line) == StripLine(line) = <<>>

\* The first index from i on whose line is (blank = TRUE) or is not
\* (blank = FALSE) blank, or Len(lines) + 1: the two inner loops of the
\* admonition branch.
RECURSIVE SkipWhile(_, _, _)
SkipWhile(lines, i, blank) ==
    IF i <= Len(lines) /\ IsBlank(lines[i]) = blank
    THEN SkipWhile(lines, i + 1, blank)
    ELSE i

\* The state of the main loop at its start.  blocks records, next to
\* cleaned, every fenced block the loop emits: its opening line, its
\* content and its closing line (none when the block was flushed at the
\* end of the input).
ScanStart ==
    [cleaned |-> <<>>, first_heading_seen |-> FALSE, buffer |-> <<>>,
     in_block |-> FALSE, block_indent |-> <<>>, block_char |-> "",
     block_len |-> 0, block_info |-> <<>>, skip_system_block |-> FALSE,
     blocks |-> <<>>]

\* The fenced block emitted when the closing fence is met.
ClosedBlock(s) ==
    LET delimiter == Tildes(RequiredLen(s.buffer, s.block_len))
    IN [open |-> s.block_indent \o delimiter \o s.block_info,
        content |-> s.buffer,
        close |-> <<s.block_indent \o delimiter>>]

\* The fenced block emitted when the input ends inside a block.
FlushedBlock(s) ==
    [open |-> s.block_indent \o Tildes(s.block_len) \o s.block_info,
     content |-> s.buffer,
     close |-> <<>>]

BlockLines(b) == <<b.open>> \o b.content \o b.close

\* The line a fenced block keeps for an input line.
Buffered(line) ==
    IF StartsWith(StripLine(line), <<"#", "#", " ", "Fitting code snippet">>)
    THEN <<"#", " ", "Fitting code snippet">>
    ELSE line

\* The hanging-indent fix.
Indented(line) ==
    LET stripped == StripLine(line)
    IN IF /\ StartsWith(line, <<" ", " ", " ">>)
          /\ ~ StartsWith(line, <<" ", " ", " ", " ">>)
          /\ ~ (StartsWith(stripped, <<"-">>) \/ StartsWith(stripped, <<"*">>))
          /\ ~ NumberedItem(stripped, 0)
       THEN <<" ">> \o line
       ELSE line

\* A variant that never takes a line for the start of a diagnostic.
StartsDiagnosticNever(stripped) == FALSE

\* line.strip().startswith("System Message:")
StartsDiagnostic(stripped) == StartsWith(stripped, <<"System Message:">>)

\* The main loop, from line i on.
RECURSIVE Scan(_, _, _)
Scan(lines, i, s) ==
    IF i > Len(lines) THEN s
    ELSE
    LET line == lines[i]
        stripped == StripLine(line)
        match == FenceMatch(line)
    IN
    IF s.skip_system_block
    THEN Scan(lines, i + 1, [s EXCEPT !.skip_system_block = (stripped # <<>>)])
    ELSE IF StartsDiagnostic(stripped)
    THEN Scan(lines, i + 1, [s EXCEPT !.skip_system_block = TRUE])
    ELSE IF ~ s.in_block /\ match.ok
    THEN Scan(lines, i + 1,
              [s EXCEPT !.in_block = TRUE, !.block_indent = match.indent,
                        !.block_char = match.char, !.block_len = match.len,
                        !.block_info = match.info, !.buffer = <<>>])
    ELSE IF s.in_block
    THEN IF match.ok /\ match.char = s.block_char /\ match.len = s.block_len
         THEN Scan(lines, i + 1,
                   [s EXCEPT !.in_block = FALSE,
                             !.cleaned = @ \o BlockLines(ClosedBlock(s)),
                             !.blocks = Append(@, ClosedBlock(s))])
         ELSE Scan(lines, i + 1, [s EXCEPT !.buffer = Append(@, Buffered(line))])
    ELSE IF StartsWith(stripped, <<"#">>)
    THEN Scan(lines, i + 1,
              [s EXCEPT !.cleaned = Append(@, NormalizedHeading(stripped,
                                                                s.first_heading_seen)),
                        !.first_heading_seen =
                            @ \/ StartsWith(NormalizedHeading(stripped, FALSE),
                                            <<"#", " ">>)])
    ELSE IF IsAdmonition(stripped)
    THEN LET j == SkipWhile(lines, i + 1, TRUE)
             k == SkipWhile(lines, j, FALSE)
         IN Scan(lines, k,
                 [s EXCEPT !.cleaned =
                     @ \o << <<">", " ", "*", "*", Capitalize(stripped[1]), ":", "*", "*">> >>
                       \o [n \in 1..(k - j) |-> <<">", " ">> \o lines[j + n - 1]]
                       \o << <<>> >>])
    ELSE Scan(lines, i + 1, [s EXCEPT !.cleaned = Append(@, Indented(line))])

\* The loop and the flush that follows it.
Scanned(lines) ==
    LET s == Scan(lines, 1, ScanStart)
    IN IF s.in_block
       THEN [s EXCEPT !.cleaned = @ \o BlockLines(FlushedBlock(s)),
                      !.blocks = Append(@, FlushedBlock(s))]
       ELSE s

Contains(line, atom) == \E n \in 1..Len(line) : line[n] = atom

\* The final pass that drops docutils diagnostics.
RECURSIVE FilterDiagnostics(_, _)
FilterDiagnostics(cleaned, skip_block) ==
    IF cleaned = <<>> THEN <<>>
    ELSE LET line == Head(cleaned)
         IN IF skip_block THEN FilterDiagnostics(Tail(cleaned), ~ IsBlank(line))
            ELSE IF Contains(line, "System Message:") THEN FilterDiagnostics(Tail(cleaned), TRUE)
            ELSE IF Contains(line, "Unexpected indentation.")
                    \/ Contains(line, "No Pygments lexer found")
            THEN FilterDiagnostics(Tail(cleaned), FALSE)
            ELSE <<line>> \o FilterDiagnostics(Tail(cleaned), FALSE)

\* The lines of "\n".join(filtered).strip() + "\n".
RECURSIVE DropBlankHead(_)
DropBlankHead(lines) ==
    IF lines # <<>> /\ IsBlank(Head(lines)) THEN DropBlankHead(Tail(lines)) ELSE lines

RECURSIVE DropBlankTail(_)
DropBlankTail(lines) ==
    IF lines # <<>> /\ IsBlank(lines[Len(lines)])
    THEN DropBlankTail(SubSeq(lines, 1, Len(lines) - 1))
    ELSE lines

StripText(lines) ==
    LET kept == DropBlankTail(DropBlankHead(lines))
    IN IF kept = <<>> THEN << <<>> >>
       ELSE [n \in 1..Len(kept) |->
                LET head == IF n = 1 THEN LStripLine(kept[n]) ELSE kept[n]
                IN IF n = Len(kept) THEN RStripLine(head) ELSE head]

_clean_markdown(text) == StripText(FilterDiagnostics(Scanned(text).cleaned, FALSE))

-----------------------------------------------------------------------------
(* The normalizer applied to bounded texts.                                *)

\* The lines the texts are made of: fences of either character, of length
\* three and four, bare, indented and with an info string; a code line, a
\* blank line, a heading, a bold-wrapped heading, the artifact heading, an
\* admonition label, a docutils diagnostic and a line with a hanging indent.
NormalizerLines ==
    { <<"'", "'", "'">>,
      <<"'", "'", "'", "'">>,
      <<"'", "'", "'", "python">>,
      <<"~", "~", "~">>,
      <<" ", " ", "~", "~", "~", "~">>,
      <<"code">>,
      <<>>,
      <<"#", " ", "Title">>,
      <<"#", " ", "*", "*", "Title", "*", "*">>,
      <<"#", "#", " ", "Fitting code snippet">>,
      <<"note">>,
      <<"System Message:", " ", "code">>,
      <<" ", " ", " ", "code">> }

NormalizerTexts == UNION {[1..n -> NormalizerLines] : n \in 0..MaxLines}

NormalizerInit ==
    /\ manifest = PlainManifest
    /\ config = [footer |-> CHOOSE f \in TemplateFiles : TRUE]
    /\ obj = __init__(manifest, config.footer)
    /\ src = [id \in Ids |-> NoFile]
    /\ rrn = [id \in Ids |-> NoFile]
    /\ ci = [id \in Ids |-> NoFile]
    /\ dirs = [rrn |-> FALSE, ci |-> FALSE]
    /\ clock = 2
    /\ inv = NoInvocation @@ [srcBefore |-> src, dstBefore |-> rrn]
    /\ quiet = TRUE
    /\ nbuilds = 0
    /\ nenv = 0
    /\ nb = NoTransformRun
    /\ ex = NoExportRun
    /\ \E text \in NormalizerTexts : md = [input |-> text, output |-> <<>>, done |-> FALSE]

\* cleaned = self._clean_markdown(text)
CleanMarkdown ==
    /\ ~ md.done
    /\ md' = [input |-> md.input, output |-> _clean_markdown(md.input), done |-> TRUE]
    /\ UNCHANGED <<config, manifest, obj, src, rrn, ci, dirs, clock, inv, quiet,
                   nbuilds, nenv, nb, ex>>

NormalizerNext == CleanMarkdown

NormalizerSpec == NormalizerInit /\ [][NormalizerNext]_vars

\* The fenced blocks the normalizer emitted for its input.
EmittedBlocks == Scanned(md.input).blocks

IsFenceLine(line) == FenceMatch(line).ok

(* C20: once the normalizer has run, every fenced block it emitted has an  *)
(* opening and a closing delimiter, both of tildes and of the same length, *)
(* and that length is strictly greater than the length of every fence      *)
(* line (backtick or tilde) in the block's emitted content; in particular  *)
(* a backtick fence of length 3 around a fence line of length 4 is emitted *)
(* with tilde delimiters of length 5 or more.                              *)
C20_FenceLengthEscalation ==
    md.done =>
        /\ \A n \in 1..Len(EmittedBlocks) :
               LET b == EmittedBlocks[n]
                   open == FenceMatch(b.open)
               IN /\ open.ok /\ open.char = "~"
                  /\ Len(b.close) = 1
                  /\ FenceMatch(b.close[1]).ok
                  /\ FenceMatch(b.close[1]).char = "~"
                  /\ FenceMatch(b.close[1]).len = open.len
                  /\ \A c \in 1..Len(b.content) :
                         IsFenceLine(b.content[c]) => FenceMatch(b.content[c]).len < open.len
        /\ md.input = << <<"'", "'", "'">>, <<"'", "'", "'", "'">>, <<"'", "'", "'">> >>
               => /\ Len(md.output) = 3
                  /\ FenceMatch(md.output[1]).len >= 5
                  /\ FenceMatch(md.output[1]).char = "~"
                  /\ md.output[3] = md.output[1]

-----------------------------------------------------------------------------
(* Claims about the normalizer's handling of single lines.                 *)

\* The line that closes the fence opened at line i under the closing rule:
\* the first later fence line of the same character and length, or 0.
RECURSIVE ClosingFrom(_, _, _)
ClosingFrom(lines, i, j) ==
    IF j > Len(lines) THEN 0
    ELSE IF /\ FenceMatch(lines[j]).ok
            /\ FenceMatch(lines[j]).char = FenceMatch(lines[i]).char
            /\ FenceMatch(lines[j]).len = FenceMatch(lines[i]).len
    THEN j
    ELSE ClosingFrom(lines, i, j + 1)

ClosingIndex(lines, i) == ClosingFrom(lines, i, i + 1)

\* The text opens a fence on its first line and closes it later.
OpensWithClosedFence ==
    /\ md.input # <<>>
    /\ IsFenceLine(md.input[1])
    /\ ClosingIndex(md.input, 1) > 0

(* C21: when the text starts with a fence-opening line that has a closing  *)
(* line, the output starts with a tilde delimiter, then has every input    *)
(* line between the two fence lines, unchanged and in order (the artifact  *)
(* heading "## Fitting code snippet" rewritten to a comment line being     *)
(* the one exception), then the same tilde delimiter.                      *)
C21_FenceContentVerbatim ==
    (md.done /\ OpensWithClosedFence) =>
        LET j == ClosingIndex(md.input, 1)
        IN /\ Len(md.output) >= j
           /\ IsFenceLine(md.output[1]) /\ FenceMatch(md.output[1]).char = "~"
           /\ \A k \in 2..(j - 1) : md.output[k] = Buffered(md.input[k])
           /\ FenceMatch(md.output[j]).ok
           /\ FenceMatch(md.output[j]).char = "~"
           /\ FenceMatch(md.output[j]).len = FenceMatch(md.output[1]).len

\* The state of the loop when it reaches line i: the loop run over the
\* lines before i.
StateAt(lines, i) == Scan(SubSeq(lines, 1, i - 1), 1, ScanStart)

\* The loop takes line i through its processing outside blocks: it is not
\* skipping a diagnostic, line i does not start one, and no fence is open.
Outside(lines, i) ==
    /\ ~ StateAt(lines, i).skip_system_block
    /\ ~ StartsWith(StripLine(lines[i]), <<"System Message:">>)
    /\ ~ StateAt(lines, i).in_block

\* The index the loop goes to after line i: past the captured lines after
\* an admonition label, to the next line otherwise.
NextIndex(lines, i) ==
    IF Outside(lines, i) /\ IsAdmonition(StripLine(lines[i]))
    THEN SkipWhile(lines, SkipWhile(lines, i + 1, TRUE), FALSE)
    ELSE i + 1

\* The indices the loop reaches.
RECURSIVE VisitsFrom(_, _)
VisitsFrom(lines, i) ==
    IF i > Len(lines) THEN {} ELSE {i} \cup VisitsFrom(lines, NextIndex(lines, i))

Visits(lines) == VisitsFrom(lines, 1)

\* What one pass of the loop over line i appended to cleaned.
Appended(lines, i) ==
    SubSeq(StateAt(lines, NextIndex(lines, i)).cleaned,
           Len(StateAt(lines, i).cleaned) + 1,
           Len(StateAt(lines, NextIndex(lines, i)).cleaned))

\* Line i is reached outside blocks and is a heading line; a top-level
\* heading is one that starts with "# " once a bold wrapper is taken off.
HeadingMet(lines, i) ==
    /\ i \in Visits(lines)
    /\ Outside(lines, i)
    /\ ~ IsFenceLine(lines[i])
    /\ StartsWith(StripLine(lines[i]), <<"#">>)

Unwrapped(line) == NormalizedHeading(StripLine(line), FALSE)

TopLevel(line) == StartsWith(Unwrapped(line), <<"#", " ">>)

\* The indices of a text that lie outside its fenced blocks, a block
\* running from a fence line to the next fence line of the same character
\* and length, or to the end of the text.
RECURSIVE OutsideFencesFrom(_, _)
OutsideFencesFrom(lines, i) ==
    IF i > Len(lines) THEN {}
    ELSE IF IsFenceLine(lines[i])
    THEN IF ClosingIndex(lines, i) = 0 THEN {}
         ELSE OutsideFencesFrom(lines, ClosingIndex(lines, i) + 1)
    ELSE {i} \cup OutsideFencesFrom(lines, i + 1)

OutsideFences(lines) == OutsideFencesFrom(lines, 1)

(* C22: the first top-level heading the normalizer meets outside fences    *)
(* is emitted top-level (a bold wrapper taken off), every later one is     *)
(* emitted as a second-level heading, each at its place in the order of    *)
(* the input, and the output has at most one top-level heading line        *)
(* outside its fenced blocks.                                              *)
C22_HeadingDemotion ==
    md.done =>
        /\ \A i \in 1..Len(md.input) :
               (HeadingMet(md.input, i) /\ TopLevel(md.input[i])) =>
                   Appended(md.input, i) =
                       IF \E h \in 1..(i - 1) :
                              HeadingMet(md.input, h) /\ TopLevel(md.input[h])
                       THEN << <<"#", "#", " ">> \o
                               SubSeq(Unwrapped(md.input[i]), 3, Len(Unwrapped(md.input[i]))) >>
                       ELSE << Unwrapped(md.input[i]) >>
        /\ Cardinality({k \in OutsideFences(md.output) :
                            StartsWith(md.output[k], <<"#", " ">>)}) <= 1

\* Line i is a fence line of the character and length of the open fence.
MatchesOpenFence(lines, i) ==
    /\ FenceMatch(lines[i]).ok
    /\ FenceMatch(lines[i]).char = StateAt(lines, i).block_char
    /\ FenceMatch(lines[i]).len = StateAt(lines, i).block_len

\* The open fence at line i is still the open fence after line i.
SameOpenFence(lines, i) ==
    /\ StateAt(lines, i + 1).in_block
    /\ StateAt(lines, i + 1).block_char = StateAt(lines, i).block_char
    /\ StateAt(lines, i + 1).block_len = StateAt(lines, i).block_len
    /\ StateAt(lines, i + 1).block_indent = StateAt(lines, i).block_indent
    /\ StateAt(lines, i + 1).block_info = StateAt(lines, i).block_info
    /\ StateAt(lines, i + 1).blocks = StateAt(lines, i).blocks

(* C24: while a fence is open, a line closes it if and only if it is a     *)
(* fence line of the same character and exactly the same length as the     *)
(* opening line; a fence line of another character or length is appended   *)
(* to the buffered content and leaves the open fence as it is.             *)
C24_FenceClosingRule ==
    md.done =>
        \A i \in 1..Len(md.input) :
            StateAt(md.input, i).in_block =>
                /\ ~ StateAt(md.input, i + 1).in_block <=> MatchesOpenFence(md.input, i)
                /\ (IsFenceLine(md.input[i]) /\ ~ MatchesOpenFence(md.input, i)) =>
                       /\ SameOpenFence(md.input, i)
                       /\ StateAt(md.input, i + 1).buffer =
                              Append(StateAt(md.input, i).buffer, md.input[i])

\* The state of the loop at the end of the input.
StateAtEnd == Scan(md.input, 1, ScanStart)

\* From line o on, the text has a tilde delimiter, then the content, then
\* a tilde delimiter of the same length.
DelimitedAt(lines, o, content) ==
    /\ o + Len(content) + 1 <= Len(lines)
    /\ IsFenceLine(lines[o])
    /\ FenceMatch(lines[o]).char = "~"
    /\ SubSeq(lines, o + 1, o + Len(content)) = content
    /\ IsFenceLine(lines[o + Len(content) + 1])
    /\ FenceMatch(lines[o + Len(content) + 1]).char = "~"
    /\ FenceMatch(lines[o + Len(content) + 1]).len = FenceMatch(lines[o]).len
    /\ FenceMatch(lines[o + Len(content) + 1]).info = <<>>

(* C25: when the input ends while a fence is still open, the normalizer    *)
(* returns a text that contains, in order, an opening delimiter, every     *)
(* buffered content line and a closing delimiter.                          *)
C25_UnterminatedFenceRecovery ==
    (md.done /\ StateAtEnd.in_block) =>
        \E o \in 1..Len(md.output) : DelimitedAt(md.output, o, StateAtEnd.buffer)

\* Line i begins with the diagnostic-start marker.
BeginsDiagnostic(line) == StartsWith(StripLine(line), <<"System Message:">>)

\* The first blank line from line i on, or 0.
NextBlank(lines, i) ==
    IF SkipWhile(lines, i, FALSE) > Len(lines) THEN 0 ELSE SkipWhile(lines, i, FALSE)

\* The text without its diagnostics: every line that begins with the
\* marker is taken out together with the lines through the next blank line.
RECURSIVE Undiagnosed(_)
Undiagnosed(lines) ==
    IF lines = <<>> THEN <<>>
    ELSE IF BeginsDiagnostic(Head(lines))
    THEN IF NextBlank(lines, 1) = 0 THEN <<>>
         ELSE Undiagnosed(SubSeq(lines, NextBlank(lines, 1) + 1, Len(lines)))
    ELSE <<Head(lines)>> \o Undiagnosed(Tail(lines))

\* The loop reaches line i, which begins a diagnostic, while it is not
\* already skipping one.
DiagnosticMet(lines, i) ==
    /\ BeginsDiagnostic(lines[i])
    /\ ~ StateAt(lines, i).skip_system_block
    /\ i \in Visits(lines)

(* C26: a line that begins with the diagnostic-start marker, met by the    *)
(* loop, is dropped together with every following line through the next   *)
(* blank line, and the loop goes on after that blank line in the state it  *)
(* had before the marker (to the end of the input when no blank line       *)
(* follows); when the loop meets every such line, the output is that of    *)
(* the text with these lines taken out; and no line of the output begins   *)
(* with the marker.                                                        *)
C26_DiagnosticSuppression ==
    md.done =>
        /\ \A i \in 1..Len(md.input) :
               DiagnosticMet(md.input, i) =>
                   IF NextBlank(md.input, i) = 0
                   THEN StateAtEnd = [StateAt(md.input, i) EXCEPT !.skip_system_block = TRUE]
                   ELSE StateAt(md.input, NextBlank(md.input, i) + 1) = StateAt(md.input, i)
        /\ (\A i \in 1..Len(md.input) :
                BeginsDiagnostic(md.input[i]) => i \in Visits(md.input))
               => md.output = _clean_markdown(Undiagnosed(md.input))
        /\ \A k \in 1..Len(md.output) : ~ BeginsDiagnostic(md.output[k])

\* A diagnostic line and the blank line after it, between two kept lines.
C26_Witness ==
    /\ md.done
    /\ Len(md.input) = 4
    /\ ~ BeginsDiagnostic(md.input[1]) /\ ~ IsBlank(md.input[1])
    /\ DiagnosticMet(md.input, 2)
    /\ IsBlank(md.input[3])
    /\ md.input[4] = <<"code">>
    /\ Len(md.output) = 2
    /\ md.output[2] = <<"code">>

\* The whole trimmed, lowercased content of the line is one of note,
\* warning, tip, important.
IsLabelLine(line) ==
    \E label \in {"note", "warning", "tip", "important"} :
        StripLine(line) \in {<<label>>} \cup
            (IF label = "note" THEN {<<"Note">>, <<"NOTE">>}
             ELSE IF label = "warning" THEN {<<"Warning">>} ELSE {})

\* The labeled blockquote line for a label line.
LabeledLine(line) ==
    <<">", " ", "*", "*",
      (IF Lower(StripLine(line)[1]) = "note" THEN "Note"
       ELSE IF Lower(StripLine(line)[1]) = "warning" THEN "Warning"
       ELSE StripLine(line)[1]),
      ":", "*", "*">>

\* The lines from..(to - 1), each prefixed as a blockquote continuation.
Quoted(lines, from, to) ==
    [n \in 1..(to - from) |-> <<">", " ">> \o lines[from + n - 1]]

\* The loop reaches the label line i outside fences and diagnostics.
AdmonitionMet(lines, i) ==
    /\ IsLabelLine(lines[i])
    /\ Outside(lines, i)
    /\ i \in Visits(lines)

\* A label line inside an open fence is buffered as it is.
LabelInFenceKept(lines, i) ==
    (IsLabelLine(lines[i]) /\ StateAt(lines, i).in_block) =>
        /\ StateAt(lines, i + 1).cleaned = StateAt(lines, i).cleaned
        /\ StateAt(lines, i + 1).in_block
        /\ StateAt(lines, i).skip_system_block
               \/ StateAt(lines, i + 1).buffer = Append(StateAt(lines, i).buffer, lines[i])

\* The first line of lines from line i on that is not blank, or Len + 1.
FirstNonBlank(lines, i) == SkipWhile(lines, i, TRUE)

\* The end of the run of non-blank lines that starts at line i: the next
\* blank line, or Len + 1.
RunEnd(lines, i) == SkipWhile(lines, i, FALSE)

(* C27 as stated: a label line met outside fences is replaced by one       *)
(* labeled blockquote line, followed by all following non-blank lines up   *)
(* to the next blank line, each prefixed as a blockquote continuation and  *)
(* otherwise untouched, followed by one blank line; a label line inside    *)
(* an open fence is not converted.                                         *)
C27_AdmonitionUpToNextBlank ==
    md.done =>
        \A i \in 1..Len(md.input) :
            /\ AdmonitionMet(md.input, i) =>
                   Appended(md.input, i) =
                       <<LabeledLine(md.input[i])>>
                       \o Quoted(md.input, i + 1, RunEnd(md.input, i + 1))
                       \o << <<>> >>
            /\ LabelInFenceKept(md.input, i)

(* C27 amended: a label line met outside fences and outside a skipped      *)
(* diagnostic is replaced by one labeled blockquote line; the blank lines  *)
(* that directly follow it are skipped, and the non-blank lines after      *)
(* them, up to the next blank line, are emitted, each prefixed as a        *)
(* blockquote continuation and otherwise untouched, followed by one blank  *)
(* line; a label line inside an open fence is not converted.               *)
C27_AdmonitionSkipsLeadingBlanks ==
    md.done =>
        \A i \in 1..Len(md.input) :
            /\ AdmonitionMet(md.input, i) =>
                   Appended(md.input, i) =
                       <<LabeledLine(md.input[i])>>
                       \o Quoted(md.input, FirstNonBlank(md.input, i + 1),
                                 RunEnd(md.input, FirstNonBlank(md.input, i + 1)))
                       \o << <<>> >>
            /\ LabelInFenceKept(md.input, i)

\* A label, a blank line, then a heading and a fence line that are quoted
\* as they are.
C27_Witness ==
    /\ md.done
    /\ Len(md.input) = 4
    /\ AdmonitionMet(md.input, 1)
    /\ IsBlank(md.input[2])
    /\ StartsWith(md.input[3], <<"#">>)
    /\ IsFenceLine(md.input[4])
    /\ md.output = <<LabeledLine(md.input[1]), <<">", " ">> \o md.input[3],
                     <<">", " ">> \o md.input[4]>>

(* C30: running the normalizer on its own output returns that output       *)
(* unchanged, for every input text.                                        *)
C30_NormalizerIdempotent ==
    md.done => _clean_markdown(md.output) = md.output

-----------------------------------------------------------------------------
(* Claims that relate transforms of the registry.                          *)

\* The lines of part stand in text, one after the other.
ContainsLines(text, part) ==
    \E o \in 0..(Len(text) - Len(part)) : SubSeq(text, o + 1, o + Len(part)) = part

(* C28: after insert_rrn_footer has been applied with a loaded footer      *)
(* template, at least one markdown cell of the notebook contains the       *)
(* footer template, whatever the notebook was: also with a start marker    *)
(* that no end marker follows, and with markers in a code cell only.       *)
C28_FooterPresentAfterInsert ==
    (LastApplied = "insert_rrn_footer" /\ obj.footer # <<>>) =>
        \E i \in 1..Len(nb.doc.cells) :
            /\ nb.doc.cells[i].cell_type = "markdown"
            /\ ContainsLines(nb.doc.cells[i].source, obj.footer)

\* The transform run is tag_ci_skip_nexus_only, then remove_nexus_only_cells.
TaggedThenRemoved ==
    nb.applied = <<"tag_ci_skip_nexus_only", "remove_nexus_only_cells">>

(* C29: every cell that tag platform-only cells tags is a cell that remove *)
(* platform-only cells deletes; after remove platform-only cells no        *)
(* remaining cell matches the tagging markers, so tagging then tags        *)
(* nothing; and tagging then removing leaves the notebook that removing    *)
(* alone leaves.                                                           *)
C29_TagRemoveConsistency ==
    /\ LastApplied = "tag_ci_skip_nexus_only" =>
           \A i \in 1..Len(nb.prev.cells) :
               (TagMarked(nb.prev.cells[i]) \/ nb.doc.cells[i] # nb.prev.cells[i]) =>
                   /\ PlatformOnly(nb.prev.cells[i])
                   /\ \A k \in 1..Len(_remove_nexus_only_cells(nb.prev).cells) :
                          _remove_nexus_only_cells(nb.prev).cells[k] # nb.prev.cells[i]
    /\ LastApplied = "remove_nexus_only_cells" =>
           /\ \A i \in 1..Len(nb.doc.cells) : ~ TagMarked(nb.doc.cells[i])
           /\ _tag_ci_skip_nexus_only(nb.doc) = nb.doc
    /\ TaggedThenRemoved => nb.doc = _remove_nexus_only_cells(nb.orig)

\* Tagging changed a cell, and removing then deleted it and kept others.
C29_Witness ==
    /\ TaggedThenRemoved
    /\ nb.prev # nb.orig
    /\ Len(nb.doc.cells) < Len(nb.orig.cells)
    /\ Len(nb.doc.cells) >= 2
    /\ \E i \in 1..Len(nb.orig.cells) :
           TagMarked(nb.orig.cells[i]) /\ ~ HasTag(nb.orig.cells[i], "ci-skip")

-----------------------------------------------------------------------------
(* scripts/export_rrn_to_repo.py: the export of the built notebooks into a *)
(* destination directory.  A path below the destination is the sequence    *)
(* of its parts, the destination itself the empty sequence; a tree is the  *)
(* set of its directories and the set of its files with their content.     *)

\* Path.parent
Parent(path) == SubSeq(path, 1, Len(path) - 1)

\* The path and the directories above it.
Prefixes(path) == {SubSeq(path, 1, k) : k \in 0..Len(path)}

\* path is d or lies below d.
IsUnder(path, d) == Len(path) >= Len(d) /\ SubSeq(path, 1, Len(d)) = d

\* d.mkdir(parents=True, exist_ok=True)
Mkdir(tree, d) == [tree EXCEPT !.dirs = @ \cup Prefixes(d)]

\* shutil.rmtree(d)
Rmtree(tree, d) ==
    [dirs |-> {x \in tree.dirs : ~ IsUnder(x, d)},
     files |-> {f \in tree.files : ~ IsUnder(f.path, d)}]

\* write_text, shutil.copy2: the file at path now has this content.
WriteFile(tree, path, content) ==
    [tree EXCEPT !.files = {f \in @ : f.path # path}
                              \cup {[path |-> path, content |-> content]}]

HasFile(tree, path) == \E f \in tree.files : f.path = path

\* _write_refdata_stub(destination)
_write_refdata_stub(tree) ==
    IF HasFile(tree, <<"refdata_dependencies.yaml">>) THEN tree
    ELSE WriteFile(tree, <<"refdata_dependencies.yaml">>, "stub")

\* The entries the export takes: nexus_support is truthy and id and
\* rrn_target are there.
Exportable(entry) == entry.nexus_support /\ entry.id # "" /\ entry.rrn_target # <<>>

\* notebook_dirs: the parents of the target paths.
notebook_dirs(entries) ==
    {Parent(entries[k].rrn_target) : k \in {n \in 1..Len(entries) : Exportable(entries[n])}}

\* The clean loop: the directories by decreasing depth, each removed when it
\* exists; st carries the tree and the directories removed so far.
RECURSIVE CleanDirs(_, _)
CleanDirs(st, remaining) ==
    IF remaining = {} THEN st
    ELSE LET nb_dir == CHOOSE d \in remaining : \A o \in remaining : Len(d) >= Len(o)
         IN CleanDirs(IF nb_dir \in st.tree.dirs
                      THEN [st EXCEPT !.tree = Rmtree(@, nb_dir),
                                      !.removed = Append(@, nb_dir)]
                      ELSE st,
                      remaining \ {nb_dir})

\* The copy loop, from entry k on.
RECURSIVE CopyEntries(_, _, _, _)
CopyEntries(st, entries, build, k) ==
    IF k > Len(entries) THEN st
    ELSE IF Exportable(entries[k]) /\ entries[k].id \in build
    THEN CopyEntries([st EXCEPT
                         !.tree = WriteFile(Mkdir(@, Parent(entries[k].rrn_target)),
                                            entries[k].rrn_target, entries[k].id),
                         !.exported = Append(@, entries[k].rrn_target)],
                     entries, build, k + 1)
    ELSE CopyEntries(st, entries, build, k + 1)

\* The per-directory requirements.txt.
RECURSIVE CopyRequirements(_, _)
CopyRequirements(tree, remaining) ==
    IF remaining = {} THEN tree
    ELSE LET nb_dir == CHOOSE d \in remaining : TRUE
         IN CopyRequirements(WriteFile(Mkdir(tree, nb_dir),
                                       nb_dir \o <<"requirements.txt">>, "requirements"),
                             remaining \ {nb_dir})

\* export_rrn_notebooks(manifest, build_dir, destination, clean=..., ...):
\* opts holds clean and write_refdata, and env, requirements and ci_runner,
\* which say that the option is on and its source file exists.
export_rrn_notebooks(entries, build, tree, opts) ==
    LET made == Mkdir(tree, <<>>)
        stubbed == IF opts.write_refdata THEN _write_refdata_stub(made) ELSE made
        start == [tree |-> stubbed, removed |-> <<>>, exported |-> <<>>]
        cleaned == IF opts.clean THEN CleanDirs(start, notebook_dirs(entries)) ELSE start
        copied == CopyEntries(cleaned, entries, build, 1)
        with_env == IF opts.env THEN WriteFile(copied.tree, <<"environment.yml">>, "env")
                    ELSE copied.tree
        with_req == IF opts.requirements
                    THEN CopyRequirements(with_env, notebook_dirs(entries))
                    ELSE with_env
        with_ci == IF opts.ci_runner
                   THEN WriteFile(Mkdir(with_req, <<"scripts">>),
                                  <<"scripts", "execute_notebooks_ci.py">>, "runner")
                   ELSE with_req
    IN [tree |-> with_ci, removed |-> cleaned.removed, exported |-> copied.exported]

\* The manifests of the export: two notebook entries, each with or without
\* nexus support, and with no target, a target without a directory
\* component, or a target one or two directories deep.
ExportTargets ==
    { <<>>, <<"a.ipynb">>, <<"notebooks", "a.ipynb">>, <<"notebooks", "lens", "b.ipynb">> }

ExportManifests ==
    { << [id |-> "n1", nexus_support |-> s1, rrn_target |-> t1],
         [id |-> "n2", nexus_support |-> s2, rrn_target |-> t2] >> :
      s1 \in BOOLEAN, s2 \in BOOLEAN, t1 \in ExportTargets, t2 \in ExportTargets }

\* The destination before the export: not there, or a repository with
\* files of its own at the top, in .git and in the notebook directories.
NoDestination == [dirs |-> {}, files |-> {}]

RepoDestination ==
    [dirs |-> {<<>>, <<".git">>, <<"notebooks">>, <<"notebooks", "lens">>},
     files |-> {[path |-> <<"README.md">>, content |-> "old"],
                [path |-> <<".git", "config">>, content |-> "old"],
                [path |-> <<"notebooks", "old.ipynb">>, content |-> "old"],
                [path |-> <<"notebooks", "lens", "b.ipynb">>, content |-> "old"]}]

ExportOptions ==
    [clean : BOOLEAN, write_refdata : BOOLEAN, env : BOOLEAN, requirements : BOOLEAN,
     ci_runner : BOOLEAN]

ExportInit ==
    /\ manifest = PlainManifest
    /\ config = [footer |-> CHOOSE f \in TemplateFiles : TRUE]
    /\ obj = __init__(manifest, config.footer)
    /\ src = [id \in Ids |-> NoFile]
    /\ rrn = [id \in Ids |-> NoFile]
    /\ ci = [id \in Ids |-> NoFile]
    /\ dirs = [rrn |-> FALSE, ci |-> FALSE]
    /\ clock = 2
    /\ inv = NoInvocation @@ [srcBefore |-> src, dstBefore |-> rrn]
    /\ quiet = TRUE
    /\ nbuilds = 0
    /\ nenv = 0
    /\ nb = NoTransformRun
    /\ md = NoNormalizerRun
    /\ \E m \in ExportManifests, build \in SUBSET {"n1", "n2"},
          tree \in {NoDestination, RepoDestination} :
           ex = [manifest |-> m, build |-> build, before |-> tree, tree |-> tree,
                 clean |-> FALSE, removed |-> <<>>, exported |-> <<>>, done |-> FALSE]

\* One run of export_rrn_notebooks.
Export(opts) ==
    /\ ~ ex.done
    /\ LET r == export_rrn_notebooks(ex.manifest, ex.build, ex.tree, opts)
       IN ex' = [ex EXCEPT !.tree = r.tree, !.clean = opts.clean, !.removed = r.removed,
                           !.exported = r.exported, !.done = TRUE]
    /\ UNCHANGED <<config, manifest, obj, src, rrn, ci, dirs, clock, inv, quiet,
                   nbuilds, nenv, nb, md>>

ExportNext == \E opts \in ExportOptions : Export(opts)

ExportSpec == ExportInit /\ [][ExportNext]_vars

\* The managed notebook directories: the parents of the rrn_target paths of
\* the nexus-supported notebook entries.
ManagedDirs ==
    {Parent(ex.manifest[k].rrn_target) :
         k \in {n \in 1..Len(ex.manifest) :
                    ex.manifest[n].nexus_support /\ ex.manifest[n].rrn_target # <<>>}}

(* C23: an export with the clean option removes only managed notebook      *)
(* directories and never the destination root: the root is not among the   *)
(* removed directories, and every file that was in the destination outside *)
(* the managed directories below the root is still there.                  *)
C23_CleanNeverRemovesRoot ==
    (ex.done /\ ex.clean) =>
        /\ \A k \in 1..Len(ex.removed) :
               ex.removed[k] \in ManagedDirs /\ ex.removed[k] # <<>>
        /\ \A f \in ex.before.files :
               (\A d \in ManagedDirs \ {<<>>} : ~ IsUnder(f.path, d)) =>
                   HasFile(ex.tree, f.path)
====
